---- MODULE Spec2Model ----
(***************************************************************************)
(* The ERN indexer of go-meta: Indexer.Index consumes a stream of root     *)
(* content identifiers inside one relational transaction, dereferences     *)
(* each through the META store and projects the MessageHeader, WorkList,   *)
(* ResourceList and ReleaseList of the document into relational rows.      *)
(***************************************************************************)
EXTENDS Integers, Sequences, FiniteSets, TLC

\* ------------------------------------------------------------------------
\* Bounds
\* ------------------------------------------------------------------------

\* longest stream one Index call is fed
MaxStream == 2

\* longest sequence value offered to a link-set normalizer
MaxParties == 2

\* the highest version a migration is registered with
MaxVersion == 3

MaxLinks == 3

\* ------------------------------------------------------------------------
\* Errors
\* ------------------------------------------------------------------------

Nil == "nil"
NoResult == "running"
PathNotFound == "PathNotFound"
StoreErr == "storeErr"
TypeErr == "typeErr"
DecodeErr == "decodeErr"
CardErr == "cardinalityErr"
TitleErr == "missingReferenceTitle"
UniqueErr == "uniqueErr"
CtxErr == "contextCanceled"
StreamErr == "streamErr"
ErrNoChange == "no change"
MigErr == "migration failed"
Panic == "panic"

\* ------------------------------------------------------------------------
\* Values held by the fields of a META object
\* ------------------------------------------------------------------------

Link(c) == [t |-> "link", c |-> c]
List(s) == [t |-> "seq", s |-> s]
Str(v) == [t |-> "str", v |-> v]
Num == [t |-> "num"]
Map(m) == [t |-> "map", m |-> m]
NoValue == [t |-> "none"]

EmptyObj == [x \in {} |-> NoValue]
Leaf(v) == "@value" :> Str(v)

\* ------------------------------------------------------------------------
\* The META store: the objects the indexed documents are made of
\* ------------------------------------------------------------------------

Title(v) == Map([TitleText |-> Map(Leaf(v))])

Header(sender, recipient) ==
    [MessageSender |-> sender, MessageRecipient |-> recipient,
     MessageId |-> Link("vMsg"), MessageThreadId |-> Link("vMsg"),
     MessageCreatedDateTime |-> Link("vMsg")]

Store ==
    \* leaf objects
       "vMsg" :> Leaf("m1")
    @@ "vName" :> Leaf("name")
    @@ "vPid" :> Leaf("pid")
    \* parties
    @@ "P1" :> [PartyId |-> Link("vPid"), PartyName |-> Map([FullName |-> Link("vName")])]
    @@ "P2" :> [PartyName |-> Map([FullName |-> Link("vName")])]
    @@ "P3" :> [PartyName |-> Link("nP3")]
    @@ "nP3" :> [FullName |-> Link("vName")]
    \* sound recording details
    @@ "T1" :> [DisplayArtist |-> Link("P3")]
    @@ "T2" :> [DisplayArtist |-> List(<<Link("P1"), Link("P3")>>)]
    \* sound recordings
    @@ "S1" :> [SoundRecordingId |-> Map([ISRC |-> Map(Leaf("isrc1"))]),
                SoundRecordingDetailsByTerritory |-> Link("T1"),
                ReferenceTitle |-> Title("song1")]
    @@ "S2" :> [SoundRecordingDetailsByTerritory |-> List(<<Link("T1"), Link("T2")>>),
                ReferenceTitle |-> Title("song2")]
    @@ "S3" :> [SoundRecordingId |-> Link("iS3"),
                SoundRecordingDetailsByTerritory |-> List(<<Link("T1")>>),
                ReferenceTitle |-> Title("song3")]
    @@ "iS3" :> [ISRC |-> Map(Leaf("isrc3"))]
    @@ "S4" :> [SoundRecordingDetailsByTerritory |-> Link("T1"),
                ReferenceTitle |-> Title("song4")]
    @@ "S5" :> [SoundRecordingDetailsByTerritory |-> Link("T1")]
    @@ "S6" :> [SoundRecordingId |-> Link("gone"),
                SoundRecordingDetailsByTerritory |-> Link("T1"),
                ReferenceTitle |-> Title("song6")]
    \* releases
    @@ "R1" :> [ReleaseId |-> Map([GRid |-> Map(Leaf("grid1"))]),
                ReferenceTitle |-> Title("album1")]
    @@ "R2" :> [ReferenceTitle |-> Title("album2")]
    \* sections
    @@ "mhA" :> Header(Link("P1"), Link("P2"))
    @@ "mhB" :> Header(List(<<Link("P2")>>), List(<<Link("P1")>>))
    @@ "wl" :> EmptyObj
    @@ "rlA" :> [SoundRecording |-> Link("S1")]
    @@ "rlB" :> [SoundRecording |-> List(<<Link("S2"), Link("S1")>>)]
    @@ "rlC" :> [SoundRecording |-> List(<<Link("S3"), Link("S6")>>)]
    @@ "rlD" :> [SoundRecording |-> List(<<Link("S4"), Link("S5")>>)]
    @@ "mhH" :> Header(List(<<Link("P1"), Str("x")>>), Link("P2"))
    @@ "rlH" :> [SoundRecording |-> List(<<Link("S4"), Link("gone"), Num>>)]
    @@ "relH" :> [Release |-> List(<<Link("R2"), Map(Leaf("x"))>>)]
    @@ "rlI" :> [SoundRecording |-> Str("x")]
    @@ "relA" :> [Release |-> Link("R1")]
    @@ "relB" :> [Release |-> List(<<Link("R2"), Link("R1")>>)]
    \* documents
    @@ "A" :> [NewReleaseMessage |-> Link("nA")]
    @@ "nA" :> [MessageHeader |-> Link("mhA"), WorkList |-> Link("wl"),
                ResourceList |-> Link("rlA"), ReleaseList |-> Link("relA")]
    @@ "B" :> [NewReleaseMessage |->
                 Map([MessageHeader |-> Link("mhB"), ResourceList |-> Link("rlB"),
                      ReleaseList |-> Link("relB")])]
    @@ "C" :> [NewReleaseMessage |-> Map([ResourceList |-> Link("rlC")])]
    @@ "D" :> [NewReleaseMessage |->
                 Map([WorkList |-> Link("wl"), ResourceList |-> Link("rlD")])]
    @@ "F" :> [NewReleaseMessage |-> Link("gone")]
    @@ "G" :> [NewReleaseMessage |-> Map([WorkList |-> Link("wl")])]
    @@ "H" :> [NewReleaseMessage |->
                 Map([MessageHeader |-> Link("mhH"), ResourceList |-> Link("rlH"),
                      ReleaseList |-> Link("relH")])]
    @@ "I" :> [NewReleaseMessage |-> Map([ResourceList |-> Link("rlI")])]

\* the identifiers a stream may deliver; "E" is not in the store
Roots == {"A", "B", "C", "D", "E", "F", "G", "H", "I"}

\* the identifiers that may occur in a relationship field
LinkCids == {"P1", "P2", "P3"}

\* ------------------------------------------------------------------------
\* Store, object and graph access
\* ------------------------------------------------------------------------

NoObj == [cid |-> "", f |-> EmptyObj]

\* meta.Store.Get: dereference a content identifier
StoreGet(c) ==
    IF c \in DOMAIN Store
    THEN [obj |-> [cid |-> c, f |-> Store[c]], err |-> Nil]
    ELSE [obj |-> NoObj, err |-> StoreErr]

\* meta.Object.Get: single-level field lookup, links are not dereferenced
ObjGet(obj, field) ==
    IF field \in DOMAIN obj.f
    THEN [v |-> obj.f[field], err |-> Nil]
    ELSE [v |-> NoValue, err |-> PathNotFound]

\* meta.Graph.Get: resolve a path, dereferencing the links met on the way;
\* the final value is returned as it is, a link included
RECURSIVE GraphWalk(_, _, _)
GraphWalk(cur, path, k) ==
    IF k > Len(path) THEN [v |-> cur, err |-> Nil]
    ELSE IF cur.t = "link"
         THEN IF cur.c \in DOMAIN Store
              THEN GraphWalk(Map(Store[cur.c]), path, k)
              ELSE [v |-> NoValue, err |-> StoreErr]
    ELSE IF cur.t = "map"
         THEN IF path[k] \in DOMAIN cur.m
              THEN GraphWalk(cur.m[path[k]], path, k + 1)
              ELSE [v |-> NoValue, err |-> PathNotFound]
    ELSE [v |-> NoValue, err |-> TypeErr]

GraphGet(obj, path) == GraphWalk(Map(obj.f), path, 1)

IsPathNotFound(err) == err = PathNotFound

\* meta.Object.Decode into struct{ Value string `json:"@value"` }
Decode(obj) ==
    IF "@value" \notin DOMAIN obj.f THEN [val |-> "", err |-> Nil]
    ELSE IF obj.f["@value"].t = "str" THEN [val |-> obj.f["@value"].v, err |-> Nil]
    ELSE [val |-> "", err |-> DecodeErr]

\* ------------------------------------------------------------------------
\* The relational index
\* ------------------------------------------------------------------------

EmptyDB ==
    [ern |-> <<>>, party |-> <<>>, sound_recording |-> <<>>,
     resource_list |-> <<>>, release |-> <<>>, release_list |-> <<>>]

Tables == DOMAIN EmptyDB
EntityTables == {"ern", "party", "sound_recording", "release"}

Rows(t) == {t[i] : i \in DOMAIN t}

\* the uniqueness constraints of the schema: an entity table is keyed by its
\* cid column, an association table by its pair of columns
KeyClash(table, old, row) ==
    IF table \in EntityTables THEN old.cid = row.cid ELSE old = row

\* tx.Exec of an INSERT statement
Exec(tx, table, row) ==
    IF \E i \in DOMAIN tx[table] : KeyClash(table, tx[table][i], row)
    THEN [tx |-> tx, err |-> UniqueErr]
    ELSE [tx |-> [tx EXCEPT ![table] = Append(@, row)], err |-> Nil]

\* meta.Index.Update: commit when the closure returns nil, roll back otherwise
Update(before, tx, err) == IF err = Nil THEN tx ELSE before

\* ------------------------------------------------------------------------
\* The ERN indexer
\* ------------------------------------------------------------------------

\* Notation for the sequential statements of the Go code.
\* With: v := e, followed by the statements K that use v
With(e, K(_)) == K(e)

\* Try: r, err := ...; if err != nil { return err }, followed by the
\* statements K that use r; the rows written so far stay in the transaction
Try(r, tx, K(_)) == IF r.err # Nil THEN [tx |-> tx, err |-> r.err] ELSE K(r)

isUniqueErr(err) == err = UniqueErr

\* the deferred wrapping of every error DecodeObj returns
orDecodeErr(r, K(_)) == IF r.err # Nil THEN [val |-> "", err |-> DecodeErr] ELSE K(r)

DecodeObj(obj, path) ==
    orDecodeErr(GraphGet(obj, path), LAMBDA x :
    IF x.v.t # "link" THEN [val |-> "", err |-> DecodeErr]
    ELSE orDecodeErr(StoreGet(x.v.c), LAMBDA o :
         orDecodeErr(Decode(o.obj), LAMBDA d : d)))

insertParty(tx, obj) ==
    With(DecodeObj(obj, <<"PartyId">>), LAMBDA partyID :
    Try(DecodeObj(obj, <<"PartyName", "FullName">>), tx, LAMBDA partyName :
    With(Exec(tx, "party",
              [cid |-> obj.cid, id |-> partyID.val, name |-> partyName.val]),
         LAMBDA r :
    IF r.err # Nil /\ ~isUniqueErr(r.err) THEN r
    ELSE [tx |-> r.tx, err |-> Nil])))

\* the loop over the elements of a sequence value: each must be a link
RECURSIVE seqCids(_)
seqCids(s) ==
    IF Len(s) = 0 THEN [ids |-> <<>>, err |-> Nil]
    ELSE IF Head(s).t # "link" THEN [ids |-> <<>>, err |-> TypeErr]
    ELSE With(seqCids(Tail(s)), LAMBDA r :
         IF r.err # Nil THEN r
         ELSE [ids |-> <<Head(s).c>> \o r.ids, err |-> Nil])

\* partyIds without the case of a single link
partyIdsSeqOnly(v) ==
    IF v.t = "seq" THEN seqCids(v.s)
    ELSE [ids |-> <<>>, err |-> Nil]

partyIds(v) ==
    IF v.t = "link" THEN [ids |-> <<v.c>>, err |-> Nil]
    ELSE IF v.t = "seq" THEN seqCids(v.s)
    ELSE [ids |-> <<>>, err |-> Nil]

RECURSIVE insertPartiesLoop(_, _, _)
insertPartiesLoop(tx, ids, k) ==
    IF k > Len(ids) THEN [tx |-> tx, err |-> Nil]
    ELSE Try(StoreGet(ids[k]), tx, LAMBDA party :
         With(insertParty(tx, party.obj), LAMBDA r :
         IF r.err # Nil THEN r ELSE insertPartiesLoop(r.tx, ids, k + 1)))

insertParties(tx, obj, field) ==
    With(ObjGet(obj, field), LAMBDA v :
    IF v.err # Nil THEN [tx |-> tx, ids |-> <<>>, err |-> v.err]
    ELSE With(partyIds(v.v), LAMBDA n :
    IF n.err # Nil THEN [tx |-> tx, ids |-> <<>>, err |-> n.err]
    ELSE With(insertPartiesLoop(tx, n.ids, 1), LAMBDA r :
    IF r.err # Nil THEN [tx |-> r.tx, ids |-> <<>>, err |-> r.err]
    ELSE [tx |-> r.tx, ids |-> n.ids, err |-> Nil])))

\* indexMessageHeader that indexes the parties and leaves the ern index as
\* it is
indexMessageHeaderPartiesOnly(tx, ernID, obj) ==
    With(insertParties(tx, obj, "MessageSender"), LAMBDA senders :
    IF senders.err # Nil THEN [tx |-> senders.tx, err |-> senders.err]
    ELSE IF Len(senders.ids) # 1 THEN [tx |-> senders.tx, err |-> CardErr]
    ELSE
    With(insertParties(senders.tx, obj, "MessageRecipient"), LAMBDA recipients :
    IF recipients.err # Nil THEN [tx |-> recipients.tx, err |-> recipients.err]
    ELSE IF Len(recipients.ids) # 1 THEN [tx |-> recipients.tx, err |-> CardErr]
    ELSE [tx |-> recipients.tx, err |-> Nil]))

\* indexMessageHeader rejecting only the lack of a sender or of a recipient
indexMessageHeaderAtLeastOne(tx, ernID, obj) ==
    With(insertParties(tx, obj, "MessageSender"), LAMBDA senders :
    IF senders.err # Nil THEN [tx |-> senders.tx, err |-> senders.err]
    ELSE IF Len(senders.ids) < 1 THEN [tx |-> senders.tx, err |-> CardErr]
    ELSE
    With(insertParties(senders.tx, obj, "MessageRecipient"), LAMBDA recipients :
    IF recipients.err # Nil THEN [tx |-> recipients.tx, err |-> recipients.err]
    ELSE IF Len(recipients.ids) < 1 THEN [tx |-> recipients.tx, err |-> CardErr]
    ELSE
    Try(DecodeObj(obj, <<"MessageId">>), recipients.tx, LAMBDA messageID :
    Try(DecodeObj(obj, <<"MessageThreadId">>), recipients.tx, LAMBDA threadID :
    Try(DecodeObj(obj, <<"MessageCreatedDateTime">>), recipients.tx, LAMBDA created :
    Exec(recipients.tx, "ern",
         [cid |-> ernID, message_id |-> messageID.val,
          thread_id |-> threadID.val, sender_id |-> senders.ids[1],
          recipient_id |-> recipients.ids[1], created |-> created.val]))))))

indexMessageHeader(tx, ernID, obj) ==
    With(insertParties(tx, obj, "MessageSender"), LAMBDA senders :
    IF senders.err # Nil THEN [tx |-> senders.tx, err |-> senders.err]
    ELSE IF Len(senders.ids) # 1 THEN [tx |-> senders.tx, err |-> CardErr]
    ELSE
    With(insertParties(senders.tx, obj, "MessageRecipient"), LAMBDA recipients :
    IF recipients.err # Nil THEN [tx |-> recipients.tx, err |-> recipients.err]
    ELSE IF Len(recipients.ids) # 1 THEN [tx |-> recipients.tx, err |-> CardErr]
    ELSE
    Try(DecodeObj(obj, <<"MessageId">>), recipients.tx, LAMBDA messageID :
    Try(DecodeObj(obj, <<"MessageThreadId">>), recipients.tx, LAMBDA threadID :
    Try(DecodeObj(obj, <<"MessageCreatedDateTime">>), recipients.tx, LAMBDA created :
    Exec(recipients.tx, "ern",
         [cid |-> ernID, message_id |-> messageID.val,
          thread_id |-> threadID.val, sender_id |-> senders.ids[1],
          recipient_id |-> recipients.ids[1], created |-> created.val]))))))

indexWorkList(tx, ernID, obj) == [tx |-> tx, err |-> Nil]

\* soundRecordingCids taking the links of a sequence and skipping the rest
soundRecordingCidsSkipping(v) ==
    IF v.t = "link" THEN [ids |-> <<v.c>>, err |-> Nil]
    ELSE IF v.t = "seq"
         THEN With(SelectSeq(v.s, LAMBDA e : e.t = "link"), LAMBDA q :
              [ids |-> [i \in 1..Len(q) |-> q[i].c], err |-> Nil])
    ELSE [ids |-> <<>>, err |-> Nil]

soundRecordingCids(v) ==
    IF v.t = "link" THEN [ids |-> <<v.c>>, err |-> Nil]
    ELSE IF v.t = "seq" THEN seqCids(v.s)
    ELSE [ids |-> <<>>, err |-> Nil]

detailsCids(v) ==
    IF v.t = "link" THEN [ids |-> <<v.c>>, err |-> Nil]
    ELSE IF v.t = "seq" THEN seqCids(v.s)
    ELSE [ids |-> <<>>, err |-> Nil]

releaseCids(v) ==
    IF v.t = "link" THEN [ids |-> <<v.c>>, err |-> Nil]
    ELSE IF v.t = "seq" THEN seqCids(v.s)
    ELSE [ids |-> <<>>, err |-> Nil]

\* the DisplayArtist loop of indexSoundRecording
RECURSIVE displayArtistLoop(_, _, _)
displayArtistLoop(tx, cids, k) ==
    IF k > Len(cids) THEN [tx |-> tx, err |-> Nil]
    ELSE Try(StoreGet(cids[k]), tx, LAMBDA o :
         With(insertParties(tx, o.obj, "DisplayArtist"), LAMBDA r :
         IF r.err # Nil THEN [tx |-> r.tx, err |-> r.err]
         ELSE displayArtistLoop(r.tx, cids, k + 1)))

\* insertSoundRecording without the resource_list insert
insertSoundRecordingOnly(tx, ernID, obj, isrc, title) ==
    Exec(tx, "sound_recording", [cid |-> obj.cid, id |-> isrc, title |-> title])

\* the sound_recording and resource_list inserts of indexSoundRecording
insertSoundRecording(tx, ernID, obj, isrc, title) ==
    With(Exec(tx, "sound_recording", [cid |-> obj.cid, id |-> isrc, title |-> title]),
         LAMBDA r :
    IF r.err # Nil THEN r
    ELSE Exec(r.tx, "resource_list", [ern_id |-> ernID, resource_id |-> obj.cid]))

\* the value of a string leaf that was resolved, "" when it was not
leafString(g) == IF g.err = Nil THEN g.v.v ELSE ""

\* the type assertion v.(string) faults on a resolved value of another type
faults(g) == g.err = Nil /\ g.v.t # "str"

indexSoundRecording(tx, ernID, obj) ==
    With(GraphGet(obj, <<"SoundRecordingId", "ISRC", "@value">>), LAMBDA v :
    IF faults(v) THEN [tx |-> tx, err |-> Panic]
    ELSE
    Try(ObjGet(obj, "SoundRecordingDetailsByTerritory"), tx, LAMBDA srCid :
    Try(detailsCids(srCid.v), tx, LAMBDA n :
    With(displayArtistLoop(tx, n.ids, 1), LAMBDA a :
    IF a.err # Nil THEN a
    ELSE
    With(GraphGet(obj, <<"ReferenceTitle", "TitleText", "@value">>), LAMBDA rt :
    IF faults(rt) THEN [tx |-> a.tx, err |-> Panic]
    ELSE IF rt.err # Nil /\ ~IsPathNotFound(rt.err) THEN [tx |-> a.tx, err |-> rt.err]
    ELSE IF leafString(rt) = "" THEN [tx |-> a.tx, err |-> TitleErr]
    ELSE insertSoundRecording(a.tx, ernID, obj, leafString(v), leafString(rt)))))))

RECURSIVE soundRecordingLoop(_, _, _, _)
soundRecordingLoop(tx, ernID, cids, k) ==
    IF k > Len(cids) THEN [tx |-> tx, err |-> Nil]
    ELSE Try(StoreGet(cids[k]), tx, LAMBDA o :
         With(indexSoundRecording(tx, ernID, o.obj), LAMBDA r :
         IF r.err # Nil THEN r ELSE soundRecordingLoop(r.tx, ernID, cids, k + 1)))

indexResourceList(tx, ernID, obj) ==
    Try(ObjGet(obj, "SoundRecording"), tx, LAMBDA v :
    Try(soundRecordingCids(v.v), tx, LAMBDA n :
    soundRecordingLoop(tx, ernID, n.ids, 1)))

\* the release and release_list inserts of indexRelease
\* insertRelease without the release insert
insertReleaseListOnly(tx, ernID, metaObj, grId, title) ==
    Exec(tx, "release_list", [ern_id |-> ernID, release_id |-> metaObj.cid])

insertRelease(tx, ernID, metaObj, grId, title) ==
    With(Exec(tx, "release", [cid |-> metaObj.cid, id |-> grId, title |-> title]),
         LAMBDA r :
    IF r.err # Nil THEN r
    ELSE Exec(r.tx, "release_list", [ern_id |-> ernID, release_id |-> metaObj.cid]))

\* indexRelease asking that the title be there, not that it be non-empty
indexReleaseTitlePresent(tx, ernID, metaObj) ==
    With(GraphGet(metaObj, <<"ReleaseId", "GRid", "@value">>), LAMBDA v :
    IF faults(v) THEN [tx |-> tx, err |-> Panic]
    ELSE
    With(GraphGet(metaObj, <<"ReferenceTitle", "TitleText", "@value">>), LAMBDA rtl :
    IF faults(rtl) THEN [tx |-> tx, err |-> Panic]
    ELSE IF rtl.err # Nil /\ ~IsPathNotFound(rtl.err) THEN [tx |-> tx, err |-> rtl.err]
    ELSE IF rtl.err # Nil THEN [tx |-> tx, err |-> TitleErr]
    ELSE insertRelease(tx, ernID, metaObj, leafString(v), leafString(rtl))))

\* indexRelease returning the error of a GRid that does not resolve
indexReleaseGridRequired(tx, ernID, metaObj) ==
    With(GraphGet(metaObj, <<"ReleaseId", "GRid", "@value">>), LAMBDA v :
    IF faults(v) THEN [tx |-> tx, err |-> Panic]
    ELSE IF v.err # Nil THEN [tx |-> tx, err |-> v.err]
    ELSE
    With(GraphGet(metaObj, <<"ReferenceTitle", "TitleText", "@value">>), LAMBDA rtl :
    IF faults(rtl) THEN [tx |-> tx, err |-> Panic]
    ELSE IF rtl.err # Nil /\ ~IsPathNotFound(rtl.err) THEN [tx |-> tx, err |-> rtl.err]
    ELSE IF leafString(rtl) = "" THEN [tx |-> tx, err |-> TitleErr]
    ELSE insertRelease(tx, ernID, metaObj, leafString(v), leafString(rtl))))

indexRelease(tx, ernID, metaObj) ==
    With(GraphGet(metaObj, <<"ReleaseId", "GRid", "@value">>), LAMBDA v :
    IF faults(v) THEN [tx |-> tx, err |-> Panic]
    ELSE
    With(GraphGet(metaObj, <<"ReferenceTitle", "TitleText", "@value">>), LAMBDA rtl :
    IF faults(rtl) THEN [tx |-> tx, err |-> Panic]
    ELSE IF rtl.err # Nil /\ ~IsPathNotFound(rtl.err) THEN [tx |-> tx, err |-> rtl.err]
    ELSE IF leafString(rtl) = "" THEN [tx |-> tx, err |-> TitleErr]
    ELSE insertRelease(tx, ernID, metaObj, leafString(v), leafString(rtl))))

RECURSIVE releaseLoop(_, _, _, _)
releaseLoop(tx, ernID, cids, k) ==
    IF k > Len(cids) THEN [tx |-> tx, err |-> Nil]
    ELSE Try(StoreGet(cids[k]), tx, LAMBDA rObj :
         With(indexRelease(tx, ernID, rObj.obj), LAMBDA r :
         IF r.err # Nil THEN r ELSE releaseLoop(r.tx, ernID, cids, k + 1)))

indexReleaseList(tx, ernID, metaObj) ==
    Try(ObjGet(metaObj, "Release"), tx, LAMBDA rls :
    Try(releaseCids(rls.v), tx, LAMBDA n :
    releaseLoop(tx, ernID, n.ids, 1)))

\* the index function indexERN binds to each section name
indexFn(field, tx, ernID, obj) ==
    CASE field = "MessageHeader" -> indexMessageHeader(tx, ernID, obj)
      [] field = "WorkList" -> indexWorkList(tx, ernID, obj)
      [] field = "ResourceList" -> indexResourceList(tx, ernID, obj)
      [] field = "ReleaseList" -> indexReleaseList(tx, ernID, obj)

\* indexProperty handing the index function the section's identifier as the
\* identifier of the document
indexPropertySectionId(tx, ernID, cid, field) ==
    Try(StoreGet(cid), tx, LAMBDA obj : indexFn(field, tx, cid, obj.obj))

indexProperty(tx, ernID, cid, field) ==
    Try(StoreGet(cid), tx, LAMBDA obj : indexFn(field, tx, ernID, obj.obj))

Sections == {"MessageHeader", "WorkList", "ResourceList", "ReleaseList"}

\* the orders in which a map iteration may visit the four sections
SectionOrders ==
    {o \in [1..4 -> Sections] : \A i, j \in 1..4 : i # j => o[i] # o[j]}

\* indexSection returning every traversal error, PathNotFound included
indexSectionStrict(tx, ern, field) ==
    Try(GraphGet(ern, <<"NewReleaseMessage", field>>), tx, LAMBDA v :
    IF v.v.t # "link" THEN [tx |-> tx, err |-> TypeErr]
    ELSE indexProperty(tx, ern.cid, v.v.c, field))

\* what indexERN does with one section: skip, fail or index it
indexSection(tx, ern, field) ==
    With(GraphGet(ern, <<"NewReleaseMessage", field>>), LAMBDA v :
    IF IsPathNotFound(v.err) THEN [tx |-> tx, err |-> Nil]
    ELSE IF v.err # Nil THEN [tx |-> tx, err |-> v.err]
    ELSE IF v.v.t # "link" THEN [tx |-> tx, err |-> TypeErr]
    ELSE indexProperty(tx, ern.cid, v.v.c, field))

\* sectionLoop by an indexERN that returns nil at the first absent section
\* instead of going on to the next
RECURSIVE sectionLoopToAbsent(_, _, _, _)
sectionLoopToAbsent(tx, ern, order, k) ==
    IF k > Len(order) THEN [tx |-> tx, err |-> Nil]
    ELSE IF IsPathNotFound(GraphGet(ern, <<"NewReleaseMessage", order[k]>>).err)
    THEN [tx |-> tx, err |-> Nil]
    ELSE With(indexSection(tx, ern, order[k]), LAMBDA r :
         IF r.err # Nil THEN r ELSE sectionLoopToAbsent(r.tx, ern, order, k + 1))

RECURSIVE sectionLoop(_, _, _, _)
sectionLoop(tx, ern, order, k) ==
    IF k > Len(order) THEN [tx |-> tx, err |-> Nil]
    ELSE With(indexSection(tx, ern, order[k]), LAMBDA r :
         IF r.err # Nil THEN r ELSE sectionLoop(r.tx, ern, order, k + 1))

indexERN(tx, ern, order) == sectionLoop(tx, ern, order, 1)

\* the stream case of the select in Index, for a received identifier
IndexCid(tx, cid, order) ==
    Try(StoreGet(cid), tx, LAMBDA obj : indexERN(tx, obj.obj, order))

\* IndexClosed ignoring stream.Err()
IndexClosedNil(streamErr) == Nil

\* the stream case of the select in Index, for a closed channel
IndexClosed(streamErr) == streamErr

\* IndexDone leaving the loop without an error
IndexDoneNil(ctxErr) == Nil

\* the ctx.Done() case of the select in Index
IndexDone(ctxErr) == ctxErr

\* ------------------------------------------------------------------------
\* The migration engine
\* ------------------------------------------------------------------------

Versions == 1..MaxVersion
Bodies == {"a", "b"}

\* a migration set is the sequence of its migrations as they were appended
NewMigrations == <<>>

\* the schema of a database: the recorded version and the statements applied
NoSchema == [version |-> 0, log |-> <<>>]

Registered(ms) == {ms[i].Version : i \in DOMAIN ms}

\* source.Migrations.Append: refuses a version the set already holds
MigrationsAppend(ms, m) ==
    IF m.Version \in Registered(ms) THEN [ms |-> ms, ok |-> FALSE]
    ELSE [ms |-> Append(ms, m), ok |-> TRUE]

\* Add ignoring what Append answers
AddUnchecked(ms, version, sql) ==
    With(MigrationsAppend(ms, [Version |-> version, Identifier |-> sql]), LAMBDA r :
    [ms |-> r.ms, panic |-> FALSE])

Add(ms, version, sql) ==
    With(MigrationsAppend(ms, [Version |-> version, Identifier |-> sql]), LAMBDA r :
    [ms |-> r.ms, panic |-> ~r.ok])

\* the registered versions above the recorded one
Pending(version, ms) == {v \in Registered(ms) : v > version}

Lowest(S) == CHOOSE x \in S : \A y \in S : x <= y

Migration(ms, v) == ms[CHOOSE i \in DOMAIN ms : ms[i].Version = v]

\* migrate.Up from the recorded version on: the pending migrations, lowest
\* version first, until one fails; failAt is the version whose statement the
\* database refuses, if any
RECURSIVE UpFrom(_, _, _, _)
UpFrom(schema, ms, failAt, applied) ==
    IF Pending(schema.version, ms) = {}
    THEN [schema |-> schema, applied |-> applied, err |-> Nil]
    ELSE With(Lowest(Pending(schema.version, ms)), LAMBDA v :
         IF v = failAt THEN [schema |-> schema, applied |-> applied, err |-> MigErr]
         ELSE UpFrom([version |-> v, log |-> Append(schema.log, Migration(ms, v))],
                     ms, failAt, Append(applied, v)))

\* migrate.Up: ErrNoChange when nothing is pending
Up(schema, ms, failAt) ==
    IF Pending(schema.version, ms) = {}
    THEN [schema |-> schema, applied |-> <<>>, err |-> ErrNoChange]
    ELSE UpFrom(schema, ms, failAt, <<>>)

\* Run handing the source driver no migrations
RunUnbound(schema, ms, failAt) ==
    With(Up(schema, NewMigrations, failAt), LAMBDA r :
    IF r.err # Nil /\ r.err # ErrNoChange THEN r ELSE [r EXCEPT !.err = Nil])

\* Run returning every error of Up, ErrNoChange included
RunStrict(schema, ms, failAt) == Up(schema, ms, failAt)

\* Migrations.Run: the drivers are bound to the database and to the set, Up
\* is called and its error returned unless it is ErrNoChange
Run(schema, ms, failAt) ==
    With(Up(schema, ms, failAt), LAMBDA r :
    IF r.err # Nil /\ r.err # ErrNoChange THEN r ELSE [r EXCEPT !.err = Nil])

\* the migrations the ern package registers when it is initialized
ernMigrations ==
    Add(Add(NewMigrations, 1, "ern-1").ms, 2, "ern-2").ms

\* NewIndexer returning an Indexer whatever Run returns
newIndexerAlways(err) == "idle"

\* NewIndexer: an Indexer when Run returned nil, none otherwise
newIndexer(err) == IF err # Nil THEN "failed" ELSE "idle"

\* ------------------------------------------------------------------------
\* State
\* ------------------------------------------------------------------------

VARIABLES
    db,         \* the committed rows of the relational index
    tx,         \* the rows seen inside the open transaction of Index
    db0,        \* the committed rows when the current Index call began
    pc,         \* where the driver is: idle, select, process, done
    cur,        \* the identifier dequeued and being processed
    offer,      \* the identifier the stream holds ready on its channel
    closed,     \* the stream channel is closed
    termErr,    \* the terminal error of the stream, stream.Err()
    cancelled,  \* ctx.Done() is closed
    result,     \* the error Index returned
    exit,       \* the statement through which Index returned
    sent,       \* the identifiers the stream delivered to this call, in order
    deq,        \* the identifiers dequeued by this call, in order
    fin,        \* the identifiers whose processing ended, with the outcome
    replay,     \* this call is fed the stream of the previous call again
    script,     \* what the stream of a replayed call has still to deliver
    nField,     \* the relationship field handed to a normalizer
    nIn,        \* the raw value of that field
    nOut,       \* the normalized identifiers
    oKind,      \* the kind of the object handed to an index function
    oObj,       \* that object
    oOut,       \* the transaction and the error the index function returned
    oDb,        \* what Update commits of that transaction
    migs,       \* the migration set
    schema,     \* the schema of the database: recorded version, statements
    lastRun,    \* the last Run of the set: where it began, what it did
    lastAdd,    \* the last Add to the set and whether it panicked
    src,        \* which RunNode runs: that of cli/node.go or the earlier one
    args,       \* the command line flags given to RunNode
    npc,        \* the statement RunNode is at
    stack,      \* the node stack: none, new, running, stopped
    services,   \* the services registered on the stack
    mining,     \* mining was started on the stack
    nerr,       \* the error RunNode returned
    ncancel,    \* the context of RunNode is cancelled
    watcher,    \* the goroutine that stops the stack on cancellation
    tmpdir      \* the temporary data directory of a dev node

vars == <<db, tx, db0, pc, cur, offer, closed, termErr, cancelled, result,
          exit, sent, deq, fin, replay, script, nField, nIn, nOut,
          oKind, oObj, oOut, oDb, migs, schema, lastRun, lastAdd,
          src, args, npc, stack, services, mining, nerr, ncancel, watcher,
          tmpdir>>

normVars == <<nField, nIn, nOut>>
objVars == <<oKind, oObj, oOut, oDb>>
migVars == <<migs, schema, lastRun, lastAdd>>
nodeVars == <<src, args, npc, stack, services, mining, nerr, ncancel, watcher,
              tmpdir>>
unitVars == <<normVars, objVars, nodeVars>>
streamVars == <<offer, closed, termErr>>

NoCid == "-"
Running == pc \in {"select", "process"}

\* an empty index on which no Index call was made
NoCallMade ==
    /\ db = EmptyDB
    /\ tx = EmptyDB
    /\ db0 = EmptyDB
    /\ cur = NoCid
    /\ offer = NoCid
    /\ closed = FALSE
    /\ termErr = Nil
    /\ cancelled = FALSE
    /\ result = NoResult
    /\ exit = "none"
    /\ sent = <<>>
    /\ deq = <<>>
    /\ fin = <<>>
    /\ replay = FALSE
    /\ script = <<>>

\* an Indexer on an empty index, no Index call made yet
IndexerIdle == NoCallMade /\ pc = "idle"

\* no normalizer applied
NormIdle ==
    /\ nField = NoCid
    /\ nIn = NoValue
    /\ nOut = [ids |-> <<>>, err |-> NoResult]

\* no index function applied to an object of its own
ObjIdle ==
    /\ oKind = NoCid
    /\ oObj = NoObj
    /\ oOut = [tx |-> EmptyDB, err |-> NoResult]
    /\ oDb = EmptyDB

NoRun == [ran |-> FALSE, before |-> NoSchema, migs |-> NewMigrations,
          applied |-> <<>>, failed |-> 0, err |-> NoResult]

NoAdd == [version |-> 0, sql |-> "", panic |-> FALSE]

\* an empty migration set and a database without schema
MigIdle ==
    /\ migs = NewMigrations
    /\ schema = NoSchema
    /\ lastRun = NoRun
    /\ lastAdd = NoAdd

\* the flags of the node command that RunNode branches on
Flags == {"--verbosity", "--config", "--datadir", "--dev", "--testnet", "--mine"}

\* RunNode is not called
NodeIdle ==
    /\ src = "node.go"
    /\ args = [f \in Flags |-> FALSE]
    /\ npc = "off"
    /\ stack = "none"
    /\ services = {}
    /\ mining = FALSE
    /\ nerr = NoResult
    /\ ncancel = FALSE
    /\ watcher = "none"
    /\ tmpdir = "none"

\* the ern package is initialized, NewIndexer is not yet called
Init ==
    /\ NoCallMade
    /\ NodeIdle
    /\ pc = "new"
    /\ NormIdle
    /\ ObjIdle
    /\ migs = ernMigrations
    /\ schema = NoSchema
    /\ lastRun = NoRun
    /\ lastAdd = NoAdd

\* NewIndexer: the migrations are run on the database of the index; the
\* call may be repeated after it has failed
NewIndexer ==
    /\ pc \in {"new", "failed"}
    /\ \E failAt \in 0..MaxVersion :
          /\ schema' = Run(schema, migs, failAt).schema
          /\ result' = Run(schema, migs, failAt).err
          /\ pc' = newIndexer(Run(schema, migs, failAt).err)
    /\ UNCHANGED <<db, tx, db0, cur, streamVars, cancelled, exit, sent, deq, fin,
                   replay, script, unitVars, migs, lastRun, lastAdd>>

\* ------------------------------------------------------------------------
\* The caller, the stream and the canceller
\* ------------------------------------------------------------------------

\* Index is entered: Update opens the transaction
Begin(again) ==
    /\ tx' = db
    /\ db0' = db
    /\ pc' = "select"
    /\ cur' = NoCid
    /\ offer' = NoCid
    /\ closed' = FALSE
    /\ termErr' = Nil
    /\ cancelled' = FALSE
    /\ result' = NoResult
    /\ exit' = "none"
    /\ fin' = <<>>
    /\ replay' = again
    /\ script' = IF again THEN deq ELSE <<>>
    /\ sent' = <<>>
    /\ deq' = <<>>
    /\ UNCHANGED <<db, unitVars, migVars>>

\* Index is called with a fresh context and a fresh stream
StartIndex ==
    /\ pc \in {"idle", "done"}
    /\ Begin(FALSE)

\* Index is called again with the stream of a call that returned nil
ReindexSame ==
    /\ pc = "done"
    /\ result = Nil
    /\ Begin(TRUE)

\* the stream has its next identifier ready on the channel
Produce(c) ==
    /\ Running
    /\ ~closed
    /\ offer = NoCid
    /\ IF replay THEN script # <<>> /\ c = Head(script)
                 ELSE Len(deq) < MaxStream
    /\ offer' = c
    /\ sent' = Append(sent, c)
    /\ script' = IF replay THEN Tail(script) ELSE script
    /\ UNCHANGED <<db, tx, db0, pc, cur, closed, termErr, cancelled, result,
                   exit, deq, fin, replay, unitVars, migVars>>

\* the stream ends: it records its terminal error and closes the channel
CloseStream(e) ==
    /\ Running
    /\ ~closed
    /\ offer = NoCid
    /\ replay => (script = <<>> /\ e = Nil)
    /\ closed' = TRUE
    /\ termErr' = e
    /\ UNCHANGED <<db, tx, db0, pc, cur, offer, cancelled, result, exit, sent,
                   deq, fin, replay, script, unitVars, migVars>>

\* the context of the call is cancelled
Cancel ==
    /\ Running
    /\ ~cancelled
    /\ cancelled' = TRUE
    /\ UNCHANGED <<db, tx, db0, pc, cur, streamVars, result, exit, sent, deq,
                   fin, replay, script, unitVars, migVars>>

\* ------------------------------------------------------------------------
\* Indexer.Index
\* ------------------------------------------------------------------------

\* Return by an Index that writes to the database outside a transaction
ReturnCommitting(t, err, how) ==
    /\ result' = err
    /\ exit' = how
    /\ db' = t
    /\ tx' = t
    /\ pc' = "done"

\* Index returns err through Update, which commits or rolls back
Return(t, err, how) ==
    /\ result' = err
    /\ exit' = how
    /\ db' = Update(db, t, err)
    /\ tx' = t
    /\ pc' = "done"

\* Recv by a driver that does not wait for the identifier in process
RecvAnyTime ==
    /\ Running
    /\ offer # NoCid
    /\ cur' = offer
    /\ offer' = NoCid
    /\ deq' = Append(deq, offer)
    /\ pc' = "process"
    /\ UNCHANGED <<db, tx, db0, closed, termErr, cancelled, result, exit, sent,
                   fin, replay, script, unitVars, migVars>>

\* select: an identifier is received from stream.Ch()
Recv ==
    /\ pc = "select"
    /\ offer # NoCid
    /\ cur' = offer
    /\ offer' = NoCid
    /\ deq' = Append(deq, offer)
    /\ pc' = "process"
    /\ UNCHANGED <<db, tx, db0, closed, termErr, cancelled, result, exit, sent,
                   fin, replay, script, unitVars, migVars>>

\* select: stream.Ch() is closed, Index returns stream.Err()
RecvClosed ==
    /\ pc = "select"
    /\ closed
    /\ offer = NoCid
    /\ Return(tx, IndexClosed(termErr), "eos")
    /\ UNCHANGED <<db0, cur, streamVars, cancelled, sent, deq, fin, replay,
                   script, unitVars, migVars>>

\* RecvDone by a select that prefers the stream: the cancellation is seen
\* only when the channel has nothing to give
RecvDoneAfterStream ==
    /\ pc = "select"
    /\ cancelled
    /\ offer = NoCid
    /\ Return(tx, IndexDone(CtxErr), "cancel")
    /\ UNCHANGED <<db0, cur, streamVars, cancelled, sent, deq, fin, replay,
                   script, unitVars, migVars>>

\* select: ctx.Done() is closed, Index returns ctx.Err()
RecvDone ==
    /\ pc = "select"
    /\ cancelled
    /\ Return(tx, IndexDone(CtxErr), "cancel")
    /\ UNCHANGED <<db0, cur, streamVars, cancelled, sent, deq, fin, replay,
                   script, unitVars, migVars>>

\* the end of the processing of the received identifier, by a driver that
\* goes on to the next identifier after an error
ProcessedGoOn(r) ==
    /\ fin' = Append(fin, [c |-> cur, err |-> r.err])
    /\ tx' = r.tx
    /\ pc' = "select"
    /\ UNCHANGED <<db, result, exit>>

\* the end of the processing of the received identifier: Index goes back
\* to its select, or returns the error
Processed(r) ==
    /\ fin' = Append(fin, [c |-> cur, err |-> r.err])
    /\ IF r.err = Nil
       THEN /\ tx' = r.tx
            /\ pc' = "select"
            /\ UNCHANGED <<db, result, exit>>
       ELSE Return(r.tx, r.err, "error")

\* the received identifier is dereferenced and indexed
Process ==
    /\ pc = "process"
    /\ \E order \in SectionOrders : Processed(IndexCid(tx, cur, order))
    /\ cur' = NoCid
    /\ UNCHANGED <<db0, streamVars, cancelled, sent, deq, replay, script,
                   unitVars, migVars>>

Next ==
    \/ NewIndexer
    \/ StartIndex
    \/ ReindexSame
    \/ \E c \in Roots : Produce(c)
    \/ \E e \in {Nil, StreamErr} : CloseStream(e)
    \/ Cancel
    \/ Recv
    \/ RecvClosed
    \/ RecvDone
    \/ Process

Spec == Init /\ [][Next]_vars

\* ------------------------------------------------------------------------
\* Indexer.Index on a stream of any length.  The steps are those of Spec
\* without the record of the identifiers sent, received and processed, so
\* that a stream may deliver for ever.
\* ------------------------------------------------------------------------

\* the stream has its next identifier ready on the channel
Deliver(c) ==
    /\ Running
    /\ ~closed
    /\ offer = NoCid
    /\ offer' = c
    /\ UNCHANGED <<db, tx, db0, pc, cur, closed, termErr, cancelled, result,
                   exit, sent, deq, fin, replay, script, unitVars, migVars>>

\* select: an identifier is received from stream.Ch()
Receive ==
    /\ pc = "select"
    /\ offer # NoCid
    /\ cur' = offer
    /\ offer' = NoCid
    /\ pc' = "process"
    /\ UNCHANGED <<db, tx, db0, closed, termErr, cancelled, result, exit, sent,
                   deq, fin, replay, script, unitVars, migVars>>

\* the end of the processing of the received identifier
Handled(r) ==
    IF r.err = Nil
    THEN /\ tx' = r.tx
         /\ pc' = "select"
         /\ UNCHANGED <<db, result, exit>>
    ELSE Return(r.tx, r.err, "error")

\* the received identifier is dereferenced and indexed
Handle ==
    /\ pc = "process"
    /\ \E order \in SectionOrders : Handled(IndexCid(tx, cur, order))
    /\ cur' = NoCid
    /\ UNCHANGED <<db0, streamVars, cancelled, sent, deq, fin, replay, script,
                   unitVars, migVars>>

\* Index is called on the new indexer
FirstIndex ==
    /\ pc = "idle"
    /\ Begin(FALSE)

NextLive ==
    \/ NewIndexer
    \/ FirstIndex
    \/ \E c \in Roots : Deliver(c)
    \/ \E e \in {Nil, StreamErr} : CloseStream(e)
    \/ Cancel
    \/ Receive
    \/ RecvClosed
    \/ RecvDone
    \/ Handle

\* The goroutine running Index is scheduled.  The processing of an
\* identifier ends: this is the weak fairness of Handle, which is enabled
\* exactly when pc = "process" and is the only step to leave it.  A select
\* whose only ready case is the closed channel takes it (weak fairness),
\* and a select with several cases ready picks one at random, so a case that
\* is ready at every select is not passed over for ever (strong fairness of
\* the cancellation case).
SpecLive ==
    /\ Init
    /\ [][NextLive]_vars
    /\ []<>(pc # "process")
    /\ WF_vars(RecvClosed)
    /\ SF_vars(RecvDone)

\* ------------------------------------------------------------------------
\* The link-set normalizers, applied to one raw field value
\* ------------------------------------------------------------------------

RelationFields ==
    {"MessageSender", "MessageRecipient", "DisplayArtist", "SoundRecording",
     "SoundRecordingDetailsByTerritory", "Release"}

\* the normalizer the indexer applies to each relationship field
fieldCids(field, v) ==
    CASE field \in {"MessageSender", "MessageRecipient", "DisplayArtist"} -> partyIds(v)
      [] field = "SoundRecording" -> soundRecordingCids(v)
      [] field = "SoundRecordingDetailsByTerritory" -> detailsCids(v)
      [] field = "Release" -> releaseCids(v)

Elems == {Link(c) : c \in LinkCids} \cup {Str("x")}

SeqsUpTo(n) == UNION {[1..k -> Elems] : k \in 0..n}

NormInputs ==
    {Link(c) : c \in LinkCids} \cup {List(s) : s \in SeqsUpTo(MaxLinks)}
      \cup {Str("x"), Num, Map(EmptyObj)}

InitNorm ==
    /\ IndexerIdle
    /\ NodeIdle
    /\ ObjIdle
    /\ MigIdle
    /\ nField = NoCid
    /\ nIn \in NormInputs
    /\ nOut = [ids |-> <<>>, err |-> NoResult]

Normalize(field) ==
    /\ nField = NoCid
    /\ nField' = field
    /\ nOut' = fieldCids(field, nIn)
    /\ UNCHANGED <<db, tx, db0, pc, cur, streamVars, cancelled, result, exit,
                   sent, deq, fin, replay, script, nIn, objVars, migVars,
                   nodeVars>>

NextNorm == \E field \in RelationFields : Normalize(field)

SpecNorm == InitNorm /\ [][NextNorm]_vars

\* ------------------------------------------------------------------------
\* The index functions, applied to one object each
\* ------------------------------------------------------------------------

\* a field of an object under construction, left out when it has no value
Field(name, v) == IF v = NoValue THEN EmptyObj ELSE name :> v

PartyElems == {Link("P1"), Link("P2"), Str("x")}

\* the values of MessageSender and MessageRecipient
PartyInputs ==
    {NoValue, Link("P1"), Link("P2"), Str("x")}
      \cup {List(q) : q \in UNION {[1..k -> PartyElems] : k \in 0..MaxParties}}

MessageIds ==
    [MessageId |-> Link("vMsg"), MessageThreadId |-> Link("vMsg"),
     MessageCreatedDateTime |-> Link("vMsg")]

HeaderInputs ==
    {[cid |-> "mh",
      f |-> Field("MessageSender", sender) @@ Field("MessageRecipient", recipient)
              @@ (IF ids THEN MessageIds ELSE EmptyObj)] :
        sender \in PartyInputs, recipient \in PartyInputs, ids \in BOOLEAN}

\* the values of SoundRecordingId (code ISRC) and ReleaseId (code GRid)
IdInputs(code) ==
    {NoValue, Map(EmptyObj), Map(code :> Map(Leaf("code"))),
     Map(code :> Map("@value" :> Num)), Link("iS3"), Link("gone")}

\* the values of ReferenceTitle
TitleInputs ==
    {NoValue, Map(EmptyObj), Title("song"), Title(""),
     Map([TitleText |-> Map("@value" :> Num)]), Link("gone")}

\* the values of SoundRecordingDetailsByTerritory
DetailsInputs ==
    {NoValue, Link("T1"), List(<<Link("T1"), Link("T2")>>), List(<<>>), Str("x")}

SoundRecordingInputs ==
    {[cid |-> "sr",
      f |-> Field("SoundRecordingId", id)
              @@ Field("SoundRecordingDetailsByTerritory", details)
              @@ Field("ReferenceTitle", title)] :
        id \in IdInputs("ISRC"), details \in DetailsInputs, title \in TitleInputs}

ReleaseInputs ==
    {[cid |-> "rl", f |-> Field("ReleaseId", id) @@ Field("ReferenceTitle", title)] :
        id \in IdInputs("GRid"), title \in TitleInputs}

PartyObjInputs ==
    {[cid |-> "pp", f |-> Field("PartyId", id) @@ Field("PartyName", name)] :
        id \in {NoValue, Link("vPid"), Link("gone"), Str("x")},
        name \in {NoValue, Map(EmptyObj), Map([FullName |-> Link("vName")]),
                  Link("nP3"), Link("gone")}}

ObjKinds == {"header", "sound", "release", "party"}

ObjInputs(kind) ==
    CASE kind = "header" -> HeaderInputs
      [] kind = "sound" -> SoundRecordingInputs
      [] kind = "release" -> ReleaseInputs
      [] kind = "party" -> PartyObjInputs

InitObj ==
    /\ IndexerIdle
    /\ NodeIdle
    /\ NormIdle
    /\ MigIdle
    /\ oKind \in ObjKinds
    /\ oObj \in ObjInputs(oKind)
    /\ oOut = [tx |-> EmptyDB, err |-> NoResult]
    /\ oDb = EmptyDB

\* the index function has returned r inside an Update on an empty index
Returned(r) ==
    /\ oOut.err = NoResult
    /\ oOut' = r
    /\ oDb' = Update(EmptyDB, r.tx, r.err)
    /\ UNCHANGED <<db, tx, db0, pc, cur, streamVars, cancelled, result, exit,
                   sent, deq, fin, replay, script, normVars, oKind, oObj,
                   migVars, nodeVars>>

IndexHeader == oKind = "header" /\ Returned(indexMessageHeader(EmptyDB, "X", oObj))

IndexSound == oKind = "sound" /\ Returned(indexSoundRecording(EmptyDB, "X", oObj))

IndexRelease == oKind = "release" /\ Returned(indexRelease(EmptyDB, "X", oObj))

InsertParty == oKind = "party" /\ Returned(insertParty(EmptyDB, oObj))

NextObj == IndexHeader \/ IndexSound \/ IndexRelease \/ InsertParty

SpecObj == InitObj /\ [][NextObj]_vars

\* ------------------------------------------------------------------------
\* A migration set and the database it is run on
\* ------------------------------------------------------------------------

InitMig ==
    /\ IndexerIdle
    /\ NodeIdle
    /\ NormIdle
    /\ ObjIdle
    /\ MigIdle

\* migrations.Add(version, sql); a panic ends the process
AddMigration(version, sql) ==
    /\ ~lastAdd.panic
    /\ migs' = Add(migs, version, sql).ms
    /\ lastAdd' = [version |-> version, sql |-> sql,
                   panic |-> Add(migs, version, sql).panic]
    /\ UNCHANGED <<db, tx, db0, pc, cur, streamVars, cancelled, result, exit,
                   sent, deq, fin, replay, script, unitVars, schema, lastRun>>

\* what a Run that began at the schema before and returned r leaves on record
RunRecord(before, ms, failAt, r) ==
    [ran |-> TRUE, before |-> before, migs |-> ms, applied |-> r.applied,
     failed |-> IF failAt \in Pending(before.version, ms) THEN failAt ELSE 0,
     err |-> r.err]

\* migrations.Run(db)
RunMigrations ==
    /\ ~lastAdd.panic
    /\ \E failAt \in 0..MaxVersion :
          /\ schema' = Run(schema, migs, failAt).schema
          /\ lastRun' = RunRecord(schema, migs, failAt, Run(schema, migs, failAt))
    /\ UNCHANGED <<db, tx, db0, pc, cur, streamVars, cancelled, result, exit,
                   sent, deq, fin, replay, script, unitVars, migs, lastAdd>>

NextMig ==
    \/ \E version \in Versions, sql \in Bodies : AddMigration(version, sql)
    \/ RunMigrations

SpecMig == InitMig /\ [][NextMig]_vars

\* ------------------------------------------------------------------------
\* RunNode, in its two versions: that of cli/node.go and the earlier one
\* ------------------------------------------------------------------------

Sources == {"node.go", "part_000"}

ModeErr == "--dev and --testnet cannot both be set"

\* the errors the other statements of RunNode return, by statement
StepErr ==
    [verbosity |-> "invalid verbosity",
     config |-> "config not loaded",
     tempdir |-> "no temporary directory",
     bootnode |-> "invalid testnet bootnode",
     new |-> "node not created",
     dev |-> "dev setup failed",
     testnet |-> "testnet setup failed",
     register |-> "service not registered",
     start |-> "node not started",
     mining |-> "mining not started",
     deploy |-> "registry not deployed"]

\* the variables of the other specifications
indexerVars ==
    <<db, tx, db0, pc, cur, streamVars, cancelled, result, exit, sent, deq,
      fin, replay, script, normVars, objVars, migVars>>

\* the first statement of RunNode
FirstStatement(s) == IF s = "part_000" THEN "verbosity" ELSE "config"

\* RunNode is called with some flags and a context not yet cancelled
InitNode ==
    /\ IndexerIdle
    /\ NormIdle
    /\ ObjIdle
    /\ MigIdle
    /\ src \in Sources
    /\ args \in [Flags -> BOOLEAN]
    /\ npc = FirstStatement(src)
    /\ stack = "none"
    /\ services = {}
    /\ mining = FALSE
    /\ nerr = NoResult
    /\ ncancel = FALSE
    /\ watcher = "none"
    /\ tmpdir = "none"

\* RunNode goes on to the statement to
GoOn(to) ==
    /\ npc' = to
    /\ UNCHANGED <<nerr, tmpdir>>

\* RunNode returns err; the deferred os.RemoveAll removes the directory
NodeReturn(err) ==
    /\ npc' = "returned"
    /\ nerr' = err
    /\ tmpdir' = IF tmpdir = "made" THEN "removed" ELSE tmpdir

\* what ok decides: go on to the statement to, or return err
OrReturn(ok, to, err) == IF ok THEN GoOn(to) ELSE NodeReturn(err)

\* a failed step after stack.Start that returns without stopping the stack
AbortRunning(err) ==
    /\ UNCHANGED stack
    /\ NodeReturn(err)

\* stack.Stop() and return err
Abort(err) ==
    /\ stack' = "stopped"
    /\ NodeReturn(err)

\* setLogVerbosity of --verbosity (earlier version only)
SetVerbosity ==
    /\ npc = "verbosity"
    /\ \E ok \in BOOLEAN : OrReturn(ok \/ ~args["--verbosity"], "config", StepErr.verbosity)
    /\ UNCHANGED <<src, args, stack, services, mining, ncancel, watcher, indexerVars>>

\* loadConfig of --config
LoadConfig ==
    /\ npc = "config"
    /\ \E ok \in BOOLEAN : OrReturn(ok \/ ~args["--config"], "datadir", StepErr.config)
    /\ UNCHANGED <<src, args, stack, services, mining, ncancel, watcher, indexerVars>>

\* the data directory: --datadir, or in cli/node.go a temporary directory
\* for a dev node
SetDataDir ==
    /\ npc = "datadir"
    /\ IF src = "node.go" /\ ~args["--datadir"] /\ args["--dev"]
       THEN \E ok \in BOOLEAN :
              IF ok THEN /\ npc' = "mode"
                         /\ tmpdir' = "made"
                         /\ UNCHANGED nerr
                    ELSE NodeReturn(StepErr.tempdir)
       ELSE GoOn(IF src = "node.go" THEN "mode" ELSE "new")
    /\ UNCHANGED <<src, args, stack, services, mining, ncancel, watcher, indexerVars>>

\* the statement after the check of the modes
AfterMode == IF src = "node.go" THEN "new" ELSE "register"

\* the check of the modes by a RunNode in which --dev takes precedence
CheckModeDevFirst ==
    /\ npc = "mode"
    /\ IF args["--dev"]
       THEN \E ok \in BOOLEAN : OrReturn(ok \/ src = "node.go", AfterMode, StepErr.dev)
       ELSE IF args["--testnet"]
       THEN \E ok \in BOOLEAN :
              OrReturn(ok \/ (src = "node.go" /\ args["--mine"]), AfterMode,
                       IF src = "node.go" THEN StepErr.bootnode ELSE StepErr.testnet)
       ELSE GoOn(AfterMode)
    /\ UNCHANGED <<src, args, stack, services, mining, ncancel, watcher, indexerVars>>

\* the check of the modes: both is an error; a dev node gets its
\* configuration (which fails only in the earlier version, setDevConfig), a
\* testnet node its own (the bootnodes are parsed unless --mine)
CheckMode ==
    /\ npc = "mode"
    /\ IF args["--dev"] /\ args["--testnet"] THEN NodeReturn(ModeErr)
       ELSE IF args["--dev"]
       THEN \E ok \in BOOLEAN : OrReturn(ok \/ src = "node.go", AfterMode, StepErr.dev)
       ELSE IF args["--testnet"]
       THEN \E ok \in BOOLEAN :
              OrReturn(ok \/ (src = "node.go" /\ args["--mine"]), AfterMode,
                       IF src = "node.go" THEN StepErr.bootnode ELSE StepErr.testnet)
       ELSE GoOn(AfterMode)
    /\ UNCHANGED <<src, args, stack, services, mining, ncancel, watcher, indexerVars>>

\* node.New
NewStack ==
    /\ npc = "new"
    /\ \E ok \in BOOLEAN :
         /\ OrReturn(ok, IF src = "node.go" THEN "devaccount" ELSE "mode", StepErr.new)
         /\ stack' = IF ok THEN "new" ELSE stack
    /\ UNCHANGED <<src, args, services, mining, ncancel, watcher, indexerVars>>

\* setupDevAccount of a dev node (cli/node.go only)
SetupDevAccount ==
    /\ npc = "devaccount"
    /\ \E ok \in BOOLEAN : OrReturn(ok \/ ~args["--dev"], "register", StepErr.dev)
    /\ UNCHANGED <<src, args, stack, services, mining, ncancel, watcher, indexerVars>>

\* the service registered after s
NextService(s) ==
    CASE s = {} -> "eth"
      [] s = {"eth"} -> "swarm"
      [] OTHER -> "kord"

\* RegisterEthService, registerSwarmService, registerKordService in turn;
\* the last two may fail
RegisterService ==
    /\ npc = "register"
    /\ \E ok \in BOOLEAN :
         /\ OrReturn(ok \/ services = {},
                     IF NextService(services) = "kord" THEN "start" ELSE "register",
                     StepErr.register)
         /\ services' = IF ok \/ services = {}
                        THEN services \cup {NextService(services)}
                        ELSE services
    /\ UNCHANGED <<src, args, stack, mining, ncancel, watcher, indexerVars>>

\* stack.Start
StartStack ==
    /\ npc = "start"
    /\ \E ok \in BOOLEAN :
         /\ OrReturn(ok, "mine", StepErr.start)
         /\ stack' = IF ok THEN "running" ELSE stack
    /\ UNCHANGED <<src, args, services, mining, ncancel, watcher, indexerVars>>

\* who mines: a dev node, and in cli/node.go a node with --mine
Mines == args["--dev"] \/ (src = "node.go" /\ args["--mine"])

\* the statement after mining is started
AfterMining == IF src = "node.go" THEN "deploy" ELSE "watch"

\* mining is started where required; a failure stops the stack
StartMining ==
    /\ npc = "mine"
    /\ IF Mines
       THEN \E ok \in BOOLEAN :
              IF ok THEN /\ GoOn(AfterMining)
                         /\ mining' = TRUE
                         /\ UNCHANGED stack
                    ELSE /\ Abort(StepErr.mining)
                         /\ UNCHANGED mining
       ELSE /\ GoOn(AfterMining)
            /\ UNCHANGED <<mining, stack>>
    /\ UNCHANGED <<src, args, services, ncancel, watcher, indexerVars>>

\* registry.Deploy on a dev node (cli/node.go only); a failure stops the
\* stack
DeployRegistry ==
    /\ npc = "deploy"
    /\ IF args["--dev"]
       THEN \E ok \in BOOLEAN :
              IF ok THEN GoOn("watch") /\ UNCHANGED stack
                    ELSE Abort(StepErr.deploy)
       ELSE GoOn("watch") /\ UNCHANGED stack
    /\ UNCHANGED <<src, args, services, mining, ncancel, watcher, indexerVars>>

\* go func() { <-ctx.Done(); stack.Stop() }()
SpawnWatcher ==
    /\ npc = "watch"
    /\ watcher' = "waiting"
    /\ GoOn("wait")
    /\ UNCHANGED <<src, args, stack, services, mining, ncancel, indexerVars>>

\* the goroutine: the context is done, it stops the stack
WatcherStops ==
    /\ watcher = "waiting"
    /\ ncancel
    /\ watcher' = "done"
    /\ stack' = "stopped"
    /\ UNCHANGED <<src, args, npc, services, mining, nerr, ncancel, tmpdir,
                   indexerVars>>

\* stack.Wait returns once the stack is stopped, and RunNode returns nil
WaitReturns ==
    /\ npc = "wait"
    /\ stack = "stopped"
    /\ NodeReturn(Nil)
    /\ UNCHANGED <<src, args, stack, services, mining, ncancel, watcher, indexerVars>>

\* the context of RunNode is cancelled
CancelNode ==
    /\ npc \notin {"off", "returned"}
    /\ ~ncancel
    /\ ncancel' = TRUE
    /\ UNCHANGED <<src, args, npc, stack, services, mining, nerr, watcher, tmpdir,
                   indexerVars>>

\* the running node exits of itself
NodeExits ==
    /\ npc = "wait"
    /\ stack = "running"
    /\ stack' = "stopped"
    /\ UNCHANGED <<src, args, npc, services, mining, nerr, ncancel, watcher,
                   tmpdir, indexerVars>>

\* the statements of RunNode itself
RunNodeSteps ==
    \/ SetVerbosity
    \/ LoadConfig
    \/ SetDataDir
    \/ CheckMode
    \/ NewStack
    \/ SetupDevAccount
    \/ RegisterService
    \/ StartStack
    \/ StartMining
    \/ DeployRegistry
    \/ SpawnWatcher
    \/ WaitReturns

NextNode ==
    \/ RunNodeSteps
    \/ WatcherStops
    \/ CancelNode
    \/ NodeExits

\* RunNode and its goroutine are scheduled, and the calls they make return
SpecNode ==
    /\ InitNode
    /\ [][NextNode]_vars
    /\ WF_vars(RunNodeSteps)
    /\ WF_vars(WatcherStops)

\* ------------------------------------------------------------------------
\* Properties
\* ------------------------------------------------------------------------

Last(q) == q[Len(q)]

\* the rows the open transaction holds beyond those committed before the call
WroteRows == \E n \in Tables : Len(tx[n]) > Len(db0[n])

\* C1: when the processing of an identifier of the batch has failed, Index
\* has returned exactly that error and the committed rows are those from
\* before the call: nothing the call wrote is visible, the rows of the
\* identifiers processed before the failing one included.
AtomicityOfIndex ==
    \A k \in DOMAIN fin :
        fin[k].err # Nil =>
            /\ pc = "done"
            /\ result = fin[k].err
            /\ db = db0

\* a second identifier failed after the first one had written rows
AtomicityWitness ==
    /\ pc = "done"
    /\ Len(fin) = 2
    /\ fin[1].err = Nil
    /\ fin[2].err # Nil
    /\ \E i \in DOMAIN tx.sound_recording :
          tx.sound_recording[i].cid \notin {r.cid : r \in Rows(db0.sound_recording)}
    /\ db = db0

\* C5: when Index has returned through the ctx.Done() case, the error is
\* the cancellation error of the context and the committed rows are those
\* from before the call.
CancellationOutcome ==
    (pc = "done" /\ exit = "cancel") =>
        /\ result = CtxErr
        /\ result # Nil
        /\ db = db0

\* Index was cancelled after an identifier had been processed and had
\* written rows
CancellationWitness ==
    /\ pc = "done"
    /\ exit = "cancel"
    /\ Len(fin) >= 1
    /\ WroteRows
    /\ db = db0

\* the ern, resource_list and release_list rows the document c alone yields
DocRows(c, n) == Rows(IndexCid(EmptyDB, c, <<"MessageHeader", "WorkList",
                                            "ResourceList", "ReleaseList">>).tx[n])

\* C7: when Index has returned through the closed stream channel, with every
\* delivered identifier processed without error, it returned the terminal
\* error of the stream; if that is nil every row of the batch is committed,
\* and if it is not the committed rows are those from before the call.
NaturalEndOfStream ==
    (pc = "done" /\ exit = "eos") =>
        /\ closed
        /\ deq = sent
        /\ \A k \in DOMAIN fin : fin[k].err = Nil
        /\ result = termErr
        /\ termErr = Nil =>
              /\ db = tx
              /\ \A k \in DOMAIN fin : \A n \in {"ern", "resource_list", "release_list"} :
                    DocRows(fin[k].c, n) \subseteq Rows(db[n])
        /\ termErr # Nil => db = db0

\* a stream of two documents ended cleanly and their rows were committed
NaturalEndWitness ==
    /\ pc = "done"
    /\ exit = "eos"
    /\ result = Nil
    /\ Len(fin) = 2
    /\ Len(db.ern) > Len(db0.ern)
    /\ Len(db.resource_list) > Len(db.ern)

\* C8: the identifiers are dequeued in the order the stream delivers them,
\* their processing ends in that same order, and at most one identifier,
\* the last one dequeued, is in process at any time.
InOrderSingleConsumer ==
    /\ Len(deq) <= Len(sent)
    /\ \A k \in DOMAIN deq : deq[k] = sent[k]
    /\ Len(fin) <= Len(deq)
    /\ \A k \in DOMAIN fin : fin[k].c = deq[k]
    /\ Len(deq) - Len(fin) = (IF pc = "process" THEN 1 ELSE 0)
    /\ pc = "process" => cur = Last(deq)

\* two different identifiers were processed one after the other
InOrderWitness ==
    /\ Len(fin) = 2
    /\ fin[1].c # fin[2].c
    /\ fin[1].err = Nil

\* what resolving NewReleaseMessage.<field> yields for the document c
SecGet(c, f) == GraphGet(StoreGet(c).obj, <<"NewReleaseMessage", f>>)

SecAbsent(c, f) == SecGet(c, f).err = PathNotFound
SecPresent(c, f) == SecGet(c, f).err = Nil /\ SecGet(c, f).v.t = "link"

\* the section f of the document c indexed on its own into an empty index
SecAlone(c, f) == indexProperty(EmptyDB, c, SecGet(c, f).v.c, f)

SecRows(c, f, n) == IF SecPresent(c, f) THEN Rows(SecAlone(c, f).tx[n]) ELSE {}

\* the document a row of the ern, resource_list or release_list table is of
Owner(n, r) == IF n = "ern" THEN r.cid ELSE r.ern_id

OwnedTables == {"ern", "resource_list", "release_list"}

\* C9: a section whose resolution yields PathNotFound is skipped and
\* contributes no row, the sections that are present are indexed all the
\* same, and a document whose present sections are sound is indexed without
\* error; a section whose resolution yields another error makes indexERN
\* return that error, which ends the call and rolls the batch back.
OptionalSections ==
    \A k \in DOMAIN fin :
        LET c == fin[k].c IN
        c \in DOMAIN Store =>
            /\ \A f \in Sections :
                  (~SecAbsent(c, f) /\ SecGet(c, f).err # Nil) =>
                      /\ fin[k].err = SecGet(c, f).err
                      /\ pc = "done"
                      /\ result = SecGet(c, f).err
                      /\ db = db0
            /\ fin[k].err = Nil =>
                  \A n \in OwnedTables :
                      {r \in Rows(tx[n]) : Owner(n, r) = c}
                          = UNION {SecRows(c, f, n) : f \in Sections}
            /\ ( /\ k = 1
                 /\ db0 = EmptyDB
                 /\ \A f \in Sections :
                       \/ SecAbsent(c, f)
                       \/ SecPresent(c, f) /\ SecAlone(c, f).err = Nil )
               => fin[k].err = Nil

\* a document lacking a section was indexed and the rows of a section it
\* has are in the transaction
OptionalSectionsWitness ==
    \E k \in DOMAIN fin :
        /\ fin[k].c \in DOMAIN Store
        /\ fin[k].err = Nil
        /\ SecAbsent(fin[k].c, "MessageHeader")
        /\ SecPresent(fin[k].c, "ResourceList")
        /\ \E r \in Rows(tx.resource_list) : r.ern_id = fin[k].c

AllLinks(q) == \A i \in DOMAIN q : q[i].t = "link"

\* C10: every relationship field holding a single link to c normalizes to
\* the sequence <<c>>, which is what the one-element sequence of that link
\* normalizes to, and a sequence of links normalizes without error to the
\* identifiers of its links in the order of the sequence.
LinkSetNormalization ==
    nField # NoCid =>
        /\ nIn.t = "link" => nOut = [ids |-> <<nIn.c>>, err |-> Nil]
        /\ (nIn.t = "seq" /\ AllLinks(nIn.s)) =>
              /\ nOut.err = Nil
              /\ Len(nOut.ids) = Len(nIn.s)
              /\ \A i \in DOMAIN nIn.s : nOut.ids[i] = nIn.s[i].c

\* a sequence of several different links was normalized
LinkSetWitness ==
    /\ nField = "MessageSender"
    /\ nIn.t = "seq"
    /\ Len(nIn.s) >= 2
    /\ AllLinks(nIn.s)
    /\ nIn.s[1].c # nIn.s[2].c
    /\ Len(nOut.ids) = Len(nIn.s)

\* C2: a second Index call over the stream of a call that returned nil, on
\* the same relational index and not cancelled, returns nil as well and
\* leaves the committed rows as the first call left them.
IdempotentReindex ==
    (replay /\ pc = "done" /\ exit # "cancel") =>
        /\ result = Nil
        /\ db = db0

\* C3: no uniqueness violation met while inserting a party, sound_recording,
\* release or ern row is returned as an error: it ends neither the indexing
\* of a document nor the call.
UniqueViolationSwallowed ==
    /\ result # UniqueErr
    /\ \A k \in DOMAIN fin : fin[k].err # UniqueErr

\* the sound recordings and releases the document c links
Children(c) ==
    {r.resource_id : r \in DocRows(c, "resource_list")}
        \cup {r.release_id : r \in DocRows(c, "release_list")}

SoundOnItsOwn(c) ==
    IndexCid(EmptyDB, c, <<"MessageHeader", "WorkList", "ResourceList",
                           "ReleaseList">>).err = Nil

Count(t, P(_)) == Cardinality({i \in DOMAIN t : P(t[i])})

\* C4: when a stream delivered, to an empty index, two different documents
\* that are each sound and link a common sound recording or release, and
\* was not cancelled, Index returns nil, the child has exactly one entity
\* row and each of the two documents has exactly one association row with it.
SharedChildren ==
    ( /\ pc = "done"
      /\ exit # "cancel"
      /\ termErr = Nil
      /\ db0 = EmptyDB
      /\ Len(fin) = 2
      /\ fin[1].c # fin[2].c
      /\ SoundOnItsOwn(fin[1].c) /\ SoundOnItsOwn(fin[2].c)
      /\ Children(fin[1].c) \cap Children(fin[2].c) # {} )
    =>
      /\ result = Nil
      /\ \A ch \in Children(fin[1].c) \cap Children(fin[2].c) :
            /\ Count(db.sound_recording, LAMBDA r : r.cid = ch)
                 + Count(db.release, LAMBDA r : r.cid = ch) = 1
            /\ \A k \in 1..2 :
                 Count(db.resource_list,
                       LAMBDA r : r.ern_id = fin[k].c /\ r.resource_id = ch)
                   + Count(db.release_list,
                           LAMBDA r : r.ern_id = fin[k].c /\ r.release_id = ch) = 1

\* C6: from the moment the context is cancelled with the driver at its
\* select, Index receives no further identifier and does not return nil.
CancellationAbortsImmediately ==
    [][(cancelled /\ pc = "select") => (pc' # "process" /\ result' # Nil)]_vars

\* the relationship field through which a section links its children
SectionField(f) ==
    CASE f = "MessageHeader" -> "MessageSender"
      [] f = "ResourceList" -> "SoundRecording"
      [] f = "ReleaseList" -> "Release"
      [] OTHER -> NoCid

\* the section object of the document c, for a section that is present
SecObj(c, f) == StoreGet(SecGet(c, f).v.c).obj

\* the value the section f of the document c holds in its relationship field
SecFieldValue(c, f) ==
    IF SecPresent(c, f) /\ SectionField(f) \in DOMAIN SecObj(c, f).f
    THEN SecObj(c, f).f[SectionField(f)]
    ELSE NoValue

NonLinkSeq(v) == v.t = "seq" /\ ~AllLinks(v.s)

\* C11: a document with a section whose relationship field is a sequence
\* with an element that is not a link fails, Index returns that error and the
\* batch is rolled back; the section itself yields the extraction error and
\* an untouched transaction, whatever links stand before the offending
\* element, a dangling one included; and when every section of the document
\* is of that kind the error of the document is the extraction error and the
\* document has written no row.
NonLinkElementFatal ==
    \A k \in DOMAIN fin :
        LET c == fin[k].c IN
        \A f \in Sections :
            NonLinkSeq(SecFieldValue(c, f)) =>
                /\ fin[k].err # Nil
                /\ pc = "done"
                /\ result = fin[k].err
                /\ db = db0
                /\ SecAlone(c, f) = [tx |-> EmptyDB, err |-> TypeErr]
                /\ (\A g \in Sections :
                       SecAbsent(c, g) \/ NonLinkSeq(SecFieldValue(c, g)))
                   => /\ fin[k].err = TypeErr
                      /\ k = 1 => tx = db0

\* a document whose SoundRecording sequence has links, one of them dangling,
\* before an element that is not a link failed after another had written rows
NonLinkElementWitness ==
    /\ pc = "done"
    /\ Len(fin) = 2
    /\ fin[1].err = Nil
    /\ WroteRows
    /\ NonLinkSeq(SecFieldValue(fin[2].c, "ResourceList"))
    /\ \E i \in DOMAIN SecFieldValue(fin[2].c, "ResourceList").s :
          SecFieldValue(fin[2].c, "ResourceList").s[i].t = "link"
    /\ result = TypeErr
    /\ db = db0

\* a value that is present and is neither a link nor a sequence
WrongShape(v) == v.t \in {"str", "num", "map"}

\* C12: a document with a section whose relationship field is present and
\* holds neither a link nor a sequence fails, Index returns that error and
\* the batch is rolled back.
WrongShapeFatal ==
    \A k \in DOMAIN fin :
        \A f \in Sections :
            WrongShape(SecFieldValue(fin[k].c, f)) =>
                /\ fin[k].err # Nil
                /\ pc = "done"
                /\ result = fin[k].err
                /\ db = db0

\* the value the object handed to an index function holds in a field
ObjField(name) == IF name \in DOMAIN oObj.f THEN oObj.f[name] ELSE NoValue

\* the number of identifiers a link or a sequence of links stands for,
\* -1 for any other value
LinkCount(v) ==
    IF v.t = "link" THEN 1
    ELSE IF v.t = "seq" /\ AllLinks(v.s) THEN Len(v.s)
    ELSE -1

\* the one identifier of a value that stands for exactly one
OnlyLink(v) == IF v.t = "link" THEN v.c ELSE v.s[1].c

\* C13: indexMessageHeader on a header whose MessageSender stands for no
\* or for several identifiers, or whose MessageSender stands for one and
\* whose MessageRecipient for none or several, returns the cardinality error
\* and leaves no ern row; on a header with one sender, one recipient and the
\* three message fields it returns nil and the ern table holds one row for
\* the document, with that sender and that recipient.
CardinalityEnforced ==
    (oKind = "header" /\ oOut.err # NoResult) =>
        LET senders == LinkCount(ObjField("MessageSender"))
            recipients == LinkCount(ObjField("MessageRecipient"))
        IN  /\ (senders = 0 \/ senders >= 2) =>
                  /\ oOut.err = CardErr
                  /\ oOut.tx.ern = <<>>
                  /\ oDb = EmptyDB
            /\ (senders = 1 /\ (recipients = 0 \/ recipients >= 2)) =>
                  /\ oOut.err = CardErr
                  /\ oOut.tx.ern = <<>>
                  /\ oDb = EmptyDB
            /\ (senders = 1 /\ recipients = 1 /\ "MessageId" \in DOMAIN oObj.f) =>
                  /\ oOut.err = Nil
                  /\ oOut.tx.ern =
                        <<[cid |-> "X", message_id |-> "m1", thread_id |-> "m1",
                           sender_id |-> OnlyLink(ObjField("MessageSender")),
                           recipient_id |-> OnlyLink(ObjField("MessageRecipient")),
                           created |-> "m1"]>>
                  /\ oDb = oOut.tx

\* a header with two different senders was refused after both parties had
\* been inserted
CardinalityWitness ==
    /\ oKind = "header"
    /\ LinkCount(ObjField("MessageSender")) = 2
    /\ ObjField("MessageSender").s[1] # ObjField("MessageSender").s[2]
    /\ LinkCount(ObjField("MessageRecipient")) = 1
    /\ oOut.err = CardErr
    /\ Len(oOut.tx.party) = 2
    /\ oDb = EmptyDB

\* the field holds no identifier: it is missing, or the code is missing in it
IdAbsent(name) == ObjField(name) \in {NoValue, Map(EmptyObj)}

\* C14: a sound recording or release without ReferenceTitle makes its
\* index function return an error, so that no row of it stays and nothing is
\* committed; a sound recording without ISRC, a release without GRid and a
\* party without PartyId, otherwise complete, are indexed without error and
\* their row holds the empty string as id.
RequiredAndOptional ==
    oOut.err # NoResult =>
        /\ (oKind \in {"sound", "release"} /\ "ReferenceTitle" \notin DOMAIN oObj.f) =>
              /\ oOut.err # Nil
              /\ oDb = EmptyDB
        /\ ( /\ oKind = "sound"
             /\ IdAbsent("SoundRecordingId")
             /\ LinkCount(ObjField("SoundRecordingDetailsByTerritory")) >= 0
             /\ ObjField("ReferenceTitle") = Title("song") ) =>
              /\ oOut.err = Nil
              /\ oOut.tx.sound_recording = <<[cid |-> "sr", id |-> "", title |-> "song"]>>
              /\ oDb = oOut.tx
        /\ ( /\ oKind = "release"
             /\ IdAbsent("ReleaseId")
             /\ ObjField("ReferenceTitle") = Title("song") ) =>
              /\ oOut.err = Nil
              /\ oOut.tx.release = <<[cid |-> "rl", id |-> "", title |-> "song"]>>
              /\ oDb = oOut.tx
        /\ ( /\ oKind = "party"
             /\ "PartyId" \notin DOMAIN oObj.f
             /\ ObjField("PartyName") \in {Map([FullName |-> Link("vName")]), Link("nP3")} ) =>
              /\ oOut.err = Nil
              /\ oOut.tx.party = <<[cid |-> "pp", id |-> "", name |-> "name"]>>
              /\ oDb = oOut.tx

\* a release without ReleaseId was indexed and its row has the empty id
RequiredAndOptionalWitness ==
    /\ oKind = "release"
    /\ "ReleaseId" \notin DOMAIN oObj.f
    /\ "ReferenceTitle" \in DOMAIN oObj.f
    /\ oOut.err = Nil
    /\ Len(oDb.release) = 1
    /\ oDb.release[1].id = ""

\* the identifiers a relationship field value links
LinkedCids(v) ==
    IF v.t = "link" THEN {v.c}
    ELSE IF v.t = "seq" THEN {v.s[i].c : i \in {j \in DOMAIN v.s : v.s[j].t = "link"}}
    ELSE {}

\* the store fails on the object ch or on a link met while resolving the
\* path of its optional identifier
ChildStoreFailure(ch, path) ==
    \/ StoreGet(ch).err = StoreErr
    \/ GraphGet(StoreGet(ch).obj, path).err = StoreErr

\* indexing the document c meets a failure of the store: on the root, on
\* the way to a section, on a sound recording or release, or on the way to
\* an ISRC or GRid
StoreFailure(c) ==
    \/ StoreGet(c).err = StoreErr
    \/ \E f \in Sections : SecGet(c, f).err = StoreErr
    \/ /\ LinkCount(SecFieldValue(c, "ResourceList")) >= 0
       /\ \E ch \in LinkedCids(SecFieldValue(c, "ResourceList")) :
             ChildStoreFailure(ch, <<"SoundRecordingId", "ISRC", "@value">>)
    \/ /\ LinkCount(SecFieldValue(c, "ReleaseList")) >= 0
       /\ \E ch \in LinkedCids(SecFieldValue(c, "ReleaseList")) :
             ChildStoreFailure(ch, <<"ReleaseId", "GRid", "@value">>)

\* C15: when indexing an identifier meets a failure of the object store,
\* on the path of an optional ISRC or GRid included, the indexing of that
\* identifier fails, Index returns the error and the batch is rolled back.
StoreFailureFatal ==
    \A k \in DOMAIN fin :
        StoreFailure(fin[k].c) =>
            /\ fin[k].err # Nil
            /\ pc = "done"
            /\ result = fin[k].err
            /\ db = db0

Ascending(q) == \A i, j \in DOMAIN q : i < j => q[i] < q[j]

Elements(q) == {q[i] : i \in DOMAIN q}

Highest(S) == CHOOSE x \in S : \A y \in S : x >= y

\* the migrations of the set ms with the versions q, in the order of q
Statements(ms, q) == [i \in 1..Len(q) |-> Migration(ms, q[i])]

\* the versions q are the versions S, each once, lowest first
ExactlyAscending(q, S) ==
    /\ Elements(q) = S
    /\ Len(q) = Cardinality(S)
    /\ Ascending(q)

\* C16: a Run in which no statement is refused, begun at the recorded
\* version v, returns nil, has applied exactly the migrations registered
\* with a version above v, each once and lowest version first whatever the
\* order of their registration, leaves their statements appended to the
\* schema and the highest registered version recorded; when no version
\* above v is registered it leaves the schema as it was.
MigrationRun ==
    (lastRun.ran /\ lastRun.failed = 0) =>
        LET v == lastRun.before.version
            pending == Pending(v, lastRun.migs)
        IN  /\ v \in 0..MaxVersion
            /\ lastRun.err = Nil
            /\ ExactlyAscending(lastRun.applied, pending)
            /\ schema.log = lastRun.before.log \o Statements(lastRun.migs, lastRun.applied)
            /\ pending # {} => schema.version = Highest(Registered(lastRun.migs))
            /\ pending = {} => schema = lastRun.before

\* a Run begun at a version above 0 applied two migrations that had been
\* registered highest version first
MigrationRunWitness ==
    /\ lastRun.ran
    /\ lastRun.failed = 0
    /\ lastRun.before.version >= 1
    /\ Len(lastRun.applied) >= 2
    /\ \E i, j \in DOMAIN lastRun.migs :
          /\ i < j
          /\ lastRun.migs[i].Version > lastRun.migs[j].Version
          /\ {lastRun.migs[i].Version, lastRun.migs[j].Version}
                \subseteq Elements(lastRun.applied)
    /\ schema.version = MaxVersion

\* C17: once a Run has returned nil and as long as no Add is made to the
\* set, every further Run returns nil, applies nothing and leaves the schema
\* and the recorded version as they are.
MigrationIdempotence ==
    [][(lastRun.ran /\ lastRun.err = Nil /\ lastRun.migs = migs /\ lastAdd' = lastAdd) =>
          /\ lastRun'.err = Nil
          /\ lastRun'.applied = <<>>
          /\ schema' = schema]_vars

\* a Run on a database the same set had migrated before
MigrationIdempotenceWitness ==
    /\ lastRun.ran
    /\ lastRun.err = Nil
    /\ lastRun.migs = migs
    /\ lastRun.before = schema
    /\ lastRun.applied = <<>>
    /\ schema.version >= 2
    /\ Len(schema.log) >= 2

\* C18, with Up as the design describes it: a Run in which the statement
\* of the pending migration k is refused returns an error, has applied
\* exactly the pending migrations below k, lowest version first, and none
\* above; the statements applied before and during the run all stay in the
\* schema, and the recorded version is that of the last migration applied,
\* the one from before the run if the run applied none.
MigrationFailure ==
    (lastRun.ran /\ lastRun.failed # 0) =>
        LET v == lastRun.before.version
            below == {u \in Pending(v, lastRun.migs) : u < lastRun.failed}
        IN  /\ lastRun.err # Nil
            /\ ExactlyAscending(lastRun.applied, below)
            /\ schema.log = lastRun.before.log \o Statements(lastRun.migs, lastRun.applied)
            /\ schema.version = (IF below = {} THEN v ELSE Highest(below))

\* a Run on a migrated database applied one migration, failed on the next
\* and left a third one pending
MigrationFailureWitness ==
    /\ lastRun.ran
    /\ lastRun.failed # 0
    /\ lastRun.err = MigErr
    /\ Len(lastRun.applied) >= 1
    /\ schema.version = Last(lastRun.applied)
    /\ schema.version < lastRun.failed
    /\ \E u \in Registered(lastRun.migs) : u > lastRun.failed

\* C19: an Add with a version the set holds panics and leaves the set as
\* it is, an Add with a version the set does not hold does not panic and
\* appends the migration, and the set never holds two migrations with the
\* same version.
DuplicateRegistration ==
    /\ [](\A i, j \in DOMAIN migs : migs[i].Version = migs[j].Version => i = j)
    /\ [][lastAdd' # lastAdd =>
             IF lastAdd'.version \in Registered(migs)
             THEN lastAdd'.panic /\ migs' = migs
             ELSE /\ ~lastAdd'.panic
                  /\ migs' = Append(migs, [Version |-> lastAdd'.version,
                                           Identifier |-> lastAdd'.sql])]_vars

\* an Add with a registered version and another statement panicked and the
\* set still holds the statement registered first
DuplicateRegistrationWitness ==
    /\ lastAdd.panic
    /\ lastAdd.version \in Registered(migs)
    /\ Migration(migs, lastAdd.version).Identifier # lastAdd.sql
    /\ Len(migs) >= 2

\* C20: an Indexer exists, and Index is called, only on a database that
\* NewIndexer has brought to the highest registered version; as long as
\* NewIndexer has not returned nil there is no Indexer, nothing was read from
\* a stream and no row was written; and a NewIndexer whose migration run
\* failed has returned that error and no Indexer.
MigrationsBeforeIndexing ==
    /\ pc \notin {"new", "failed"} =>
          /\ schema.version = Highest(Registered(migs))
          /\ schema.log = Statements(migs, <<1, 2>>)
    /\ pc \in {"new", "failed"} =>
          /\ db = EmptyDB /\ tx = EmptyDB
          /\ sent = <<>> /\ deq = <<>> /\ fin = <<>>
    /\ pc = "failed" <=> result = MigErr
    /\ pc = "idle" => result = Nil

\* an Indexer was made on a second attempt, the first one having left the
\* database half migrated, and an Index call on it has committed rows
MigrationsBeforeIndexingWitness ==
    /\ pc = "done"
    /\ result = Nil
    /\ schema.version = 2
    /\ Len(db.ern) >= 1

Distinct(q) == \A i, j \in DOMAIN q : q[i] = q[j] => i = j

ErnCids == {db.ern[i].cid : i \in DOMAIN db.ern}

\* Index has returned nil for a stream of distinct identifiers delivered to
\* an empty index
IndexedFromEmpty ==
    /\ pc = "done"
    /\ result = Nil
    /\ db0 = EmptyDB
    /\ Distinct(sent)

\* C21 as claimed: when Index has returned nil for a stream of distinct
\* identifiers delivered to an empty index, the cid values of the ern table
\* are the delivered identifiers, one row for each.
ErnTablePopulated ==
    IndexedFromEmpty =>
        /\ ErnCids = Elements(sent)
        /\ Len(db.ern) = Len(sent)

\* the delivered identifiers whose document has a MessageHeader section
WithHeader == {c \in Elements(sent) : SecPresent(c, "MessageHeader")}

\* C21 as amended: when Index has returned nil for a stream of distinct
\* identifiers delivered to an empty index, the cid values of the ern table
\* are the delivered identifiers whose document has a MessageHeader section,
\* one row for each.
ErnTableOfHeaders ==
    IndexedFromEmpty =>
        /\ ErnCids = WithHeader
        /\ Len(db.ern) = Cardinality(WithHeader)

\* a stream of a document with and a document without MessageHeader was
\* indexed and both have left rows
ErnTableWitness ==
    /\ IndexedFromEmpty
    /\ Len(sent) = 2
    /\ Cardinality(WithHeader) = 1
    /\ ErnCids = WithHeader
    /\ \E r \in Rows(db.resource_list) : r.ern_id \notin WithHeader

\* the entity table tbl has one row for each of the children S and no other,
\* and the association table has one row pairing c with each and no other
RowsOfChildren(c, S, entity, assoc, P(_, _)) ==
    /\ Len(db[entity]) = Cardinality(S)
    /\ Len(db[assoc]) = Cardinality(S)
    /\ \A ch \in S :
          /\ Count(db[entity], LAMBDA r : r.cid = ch) = 1
          /\ Count(db[assoc], LAMBDA r : P(r, ch)) = 1

\* C22: when Index has returned nil for a stream of one document delivered
\* to an empty index, each sound recording its ResourceList links and each
\* release its ReleaseList links has exactly one entity row, keyed by its own
\* identifier, and exactly one association row pairing the document with it,
\* and these tables hold no other row.
RowsPerDocument ==
    (pc = "done" /\ result = Nil /\ db0 = EmptyDB /\ Len(sent) = 1) =>
        /\ RowsOfChildren(sent[1], LinkedCids(SecFieldValue(sent[1], "ResourceList")),
                          "sound_recording", "resource_list",
                          LAMBDA r, ch : r.ern_id = sent[1] /\ r.resource_id = ch)
        /\ RowsOfChildren(sent[1], LinkedCids(SecFieldValue(sent[1], "ReleaseList")),
                          "release", "release_list",
                          LAMBDA r, ch : r.ern_id = sent[1] /\ r.release_id = ch)

\* a document with two sound recordings and two releases was indexed
RowsPerDocumentWitness ==
    /\ pc = "done"
    /\ result = Nil
    /\ db0 = EmptyDB
    /\ Len(sent) = 1
    /\ Cardinality(LinkedCids(SecFieldValue(sent[1], "ResourceList"))) = 2
    /\ Cardinality(LinkedCids(SecFieldValue(sent[1], "ReleaseList"))) = 2
    /\ Len(db.resource_list) = 2
    /\ Len(db.release_list) = 2

IsPrefix(p, q) == Len(p) <= Len(q) /\ \A i \in DOMAIN p : p[i] = q[i]

\* C23: no step changes or removes a committed row: the committed rows of
\* every table stay, in their place, and rows are at most added after them;
\* and a call that has returned an error, the cancellation error included,
\* has left the committed rows as they were when it began.
AppendOnlyRows ==
    /\ [][\A n \in Tables : IsPrefix(db[n], db'[n])]_vars
    /\ []((pc = "done" /\ result # Nil) => db = db0)
    /\ [](\A n \in Tables : IsPrefix(db0[n], db[n]))

\* a call has failed on an index that holds rows of two earlier calls
AppendOnlyRowsWitness ==
    /\ pc = "done"
    /\ result # Nil
    /\ Len(fin) >= 1
    /\ WroteRows
    /\ db = db0
    /\ Len(db.resource_list) >= 2
    /\ \E i, j \in DOMAIN db.resource_list :
          db.resource_list[i].ern_id # db.resource_list[j].ern_id

\* C24: a call of Index whose context has been cancelled returns, whatever
\* the stream does: stay silent, deliver for ever, or close.
TerminationOnCancellation == (Running /\ cancelled) ~> (pc = "done")

\* Index has returned the cancellation error while the stream, which had
\* delivered before, had one more identifier ready
TerminationOnCancellationWitness ==
    /\ pc = "done"
    /\ cancelled
    /\ exit = "cancel"
    /\ result = CtxErr
    /\ offer # NoCid
    /\ ~closed
    /\ Rows(tx.resource_list) # Rows(db.resource_list)

\* the processing of some identifier of the call has returned an error
Failed == \E i \in DOMAIN fin : fin[i].err # Nil

\* C25: once the dereference or the indexing of an identifier has returned
\* an error, that identifier is the last one received and the last one
\* processed, Index has returned its error, and until another call begins
\* nothing more is received, processed or inserted.
NoRetryNoResume ==
    /\ [](\A i \in DOMAIN fin :
            fin[i].err # Nil =>
                /\ i = Len(fin)
                /\ Len(deq) = i
                /\ deq[i] = fin[i].c
                /\ cur = NoCid
                /\ pc = "done"
                /\ result = fin[i].err)
    /\ [][(Failed /\ fin' # <<>>) => UNCHANGED <<deq, fin, tx, db>>]_vars

\* the first identifier failed after rows were inserted for it, and the
\* next identifier of the stream was left on the channel
NoRetryNoResumeWitness ==
    /\ Failed
    /\ Len(fin) = 1
    /\ WroteRows
    /\ offer # NoCid
    /\ Len(sent) = 2
    /\ Len(deq) = 1
    /\ db = db0

\* two results of indexing one document agree: both fail, or both succeed
\* with the same rows in every table
SameOutcome(a, b) ==
    /\ (a.err = Nil) <=> (b.err = Nil)
    /\ a.err = Nil => \A n \in Tables : Rows(a.tx[n]) = Rows(b.tx[n])

\* the order in which the source lists the sections
ListedOrder == <<"MessageHeader", "WorkList", "ResourceList", "ReleaseList">>

\* C26: whenever Index is about to process a received identifier, every
\* order of visiting the four sections gives the same outcome, failure or
\* success, and on success the same set of rows in every table.
SectionOrderIndependence ==
    pc = "process" =>
        LET listed == IndexCid(tx, cur, ListedOrder)
        IN  \A order \in SectionOrders : SameOutcome(IndexCid(tx, cur, order), listed)

\* a document is about to be indexed successfully, and two visiting orders
\* insert its rows in different sequences
SectionOrderWitness ==
    /\ pc = "process"
    /\ IndexCid(tx, cur, ListedOrder).err = Nil
    /\ \E order \in SectionOrders :
          IndexCid(tx, cur, order).tx # IndexCid(tx, cur, ListedOrder).tx

\* the cids of the committed rows of an entity table
Cids(table) == {db[table][i].cid : i \in DOMAIN db[table]}

\* C27: in every committed state the sender and the recipient of each ern
\* row are party rows, the resource of each resource_list row is a
\* sound_recording row and the release of each release_list row is a
\* release row.
ChildSideIntegrity ==
    /\ \A r \in Rows(db.ern) :
          r.sender_id \in Cids("party") /\ r.recipient_id \in Cids("party")
    /\ \A r \in Rows(db.resource_list) : r.resource_id \in Cids("sound_recording")
    /\ \A r \in Rows(db.release_list) : r.release_id \in Cids("release")

\* a document with its parties, two sound recordings and two releases is
\* committed, and the sound recordings of another document
ChildSideIntegrityWitness ==
    /\ Len(db.ern) = 1
    /\ Len(db.party) >= 2
    /\ Len(db.release_list) = 2
    /\ Len(db.resource_list) >= 3

\* the association rows of the committed state
ListRows == Rows(db.resource_list) \cup Rows(db.release_list)

\* C28 as claimed: in every committed state the document of each
\* resource_list row and of each release_list row is an ern row.
ParentSideIntegrity == \A r \in ListRows : r.ern_id \in Cids("ern")

\* C28 as amended: in every committed state the document of each
\* resource_list row and of each release_list row is an ern row when the
\* document has a MessageHeader section, also when other sections of it are
\* absent.
ParentSideIntegrityOfHeaders ==
    \A r \in ListRows : SecPresent(r.ern_id, "MessageHeader") => r.ern_id \in Cids("ern")

\* a document with a header and without a work list is committed with its
\* ern row, beside a document without a header
ParentSideIntegrityWitness ==
    /\ \E r \in ListRows :
          /\ SecPresent(r.ern_id, "MessageHeader")
          /\ ~SecPresent(r.ern_id, "WorkList")
          /\ r.ern_id \in Cids("ern")
    /\ \E r \in ListRows : ~SecPresent(r.ern_id, "MessageHeader")

\* a leaf that is there and is not a string
NonString(code) == Map(code :> Map("@value" :> Num))

\* the object drawn has a leaf the indexer resolves that is not a string
MalformedLeaf ==
    \/ oKind = "sound" /\ ObjField("SoundRecordingId") = NonString("ISRC")
    \/ oKind = "release" /\ ObjField("ReleaseId") = NonString("GRid")
    \/ oKind \in {"sound", "release"} /\ ObjField("ReferenceTitle") = NonString("TitleText")

\* C29: indexing a sound recording or a release with a leaf that is there
\* but is not a string ends with a returned error, not with a fault, and
\* commits nothing.
NoFaultOnMalformedLeaves ==
    (oOut.err # NoResult /\ MalformedLeaf) =>
        /\ oOut.err \notin {Nil, Panic}
        /\ oDb = EmptyDB

\* the object o with t as its ReferenceTitle
WithTitle(o, t) ==
    [cid |-> o.cid,
     f |-> [n \in DOMAIN o.f \cup {"ReferenceTitle"} |->
              IF n = "ReferenceTitle" THEN t ELSE o.f[n]]]

\* the object o without ReferenceTitle
WithoutTitle(o) ==
    [cid |-> o.cid, f |-> [n \in DOMAIN o.f \ {"ReferenceTitle"} |-> o.f[n]]]

\* the index function of the kind drawn, on an empty index
IndexObj(o) ==
    IF oKind = "sound" THEN indexSoundRecording(EmptyDB, "X", o)
                       ELSE indexRelease(EmptyDB, "X", o)

\* C30: a sound recording or release whose title is the empty string gets
\* the result the same object without ReferenceTitle gets, an error, which
\* is the missing-title error when the object is indexed without error once
\* given a title; and no row committed has an empty title.
EmptyTitleAsMissing ==
    oOut.err # NoResult =>
        /\ (oKind \in {"sound", "release"} /\ ObjField("ReferenceTitle") = Title("")) =>
              /\ oOut = IndexObj(WithoutTitle(oObj))
              /\ oOut.err # Nil
              /\ IndexObj(WithTitle(oObj, Title("song"))).err = Nil => oOut.err = TitleErr
              /\ oDb = EmptyDB
        /\ \A r \in Rows(oDb.sound_recording) \cup Rows(oDb.release) : r.title # ""

\* a release with an empty title, complete otherwise, was rejected for its
\* missing title
EmptyTitleWitness ==
    /\ oKind = "release"
    /\ ObjField("ReferenceTitle") = Title("")
    /\ ObjField("ReleaseId") = Map("GRid" :> Map(Leaf("code")))
    /\ oOut.err = TitleErr
    /\ oDb = EmptyDB

\* RunNode was called with both --dev and --testnet
BothModes == args["--dev"] /\ args["--testnet"]

\* nothing was registered on the stack, and it was neither started nor mined on
StackUntouched ==
    /\ services = {}
    /\ stack \in {"none", "new"}
    /\ ~mining

\* C31 as claimed: RunNode called with both --dev and --testnet returns the
\* error that they cannot both be set, and never registers a service on the
\* stack, starts it or mines on it.
ModesExclusive ==
    BothModes =>
        /\ npc = "returned" => nerr = ModeErr
        /\ StackUntouched

\* the errors of the statements that precede the check of the modes
EarlierErrs ==
    IF src = "node.go" THEN {StepErr.config, StepErr.tempdir}
                       ELSE {StepErr.verbosity, StepErr.config, StepErr.new}

\* C31 as amended: RunNode called with both --dev and --testnet returns an
\* error, which is the error that they cannot both be set unless a statement
\* before the check failed, and never registers a service on the stack,
\* starts it or mines on it.
ModesExclusiveAtCheck ==
    BothModes =>
        /\ npc = "returned" => nerr \in {ModeErr} \cup EarlierErrs
        /\ npc \in {"verbosity", "config", "datadir", "new", "mode", "returned"}
        /\ StackUntouched

\* the earlier RunNode has returned the error of the modes with the stack
\* created and untouched
ModesExclusiveWitness ==
    /\ BothModes
    /\ src = "part_000"
    /\ npc = "returned"
    /\ nerr = ModeErr
    /\ stack = "new"
    /\ args["--config"]

\* C32: when RunNode has returned after the stack was started, the stack is
\* stopped, and RunNode has returned the error of mining or of the registry
\* or, through stack.Wait, nil; the goroutine that sees the cancellation
\* stops the stack, and a return after it is a return of nil; and once the
\* context is cancelled RunNode returns.
ShutdownDiscipline ==
    /\ ncancel ~> (npc = "returned")
    /\ []((npc = "returned" /\ stack \in {"running", "stopped"}) =>
            /\ stack = "stopped"
            /\ nerr \in {StepErr.mining, StepErr.deploy, Nil}
            /\ nerr # Nil => watcher = "none")
    /\ []((npc = "returned" /\ watcher # "none") => nerr = Nil /\ stack = "stopped")
    /\ [][(watcher = "waiting" /\ watcher' = "done") => stack' = "stopped"]_vars

\* a mining dev node was stopped by the cancellation and RunNode returned nil
ShutdownWitness ==
    /\ npc = "returned"
    /\ nerr = Nil
    /\ ncancel
    /\ watcher = "done"
    /\ stack = "stopped"
    /\ mining
    /\ args["--dev"]

====
